---- MODULE Spec2Model ----
(***************************************************************************)
(* MongoDB Atlas Local extension: the listing of containers and the launch *)
(* of a new one.                                                           *)
(*                                                                         *)
(* Two revisions of the extension are in the repository and both are       *)
(* modelled:                                                               *)
(*   variant "service": the React UI (App.tsx with lib.ts) asks the Go     *)
(*                      backend (backend/main.go), which answers           *)
(*                      GET /containers and POST /containers from the      *)
(*                      container runtime;                                 *)
(*   variant "cli":     the React UI (ui/src/App.tsx) talks to the         *)
(*                      runtime itself and derives the rows in the browser.*)
(*                                                                         *)
(* Strings the code slices, scans or concatenates are sequences of         *)
(* symbols.  A symbol is one character, or a literal of the source that    *)
(* the code only ever handles as a whole (the name of an env key, a fixed  *)
(* piece of the connection string).                                        *)
(***************************************************************************)
EXTENDS Integers, Sequences, FiniteSets, TLC

\* ------------------------------------------------------------------ bounds

\* Longest env list of an inspected container.
MaxEnv == 3
\* Longest names list of a container.
MaxNames == 2
\* Longest list of host bindings of one container port / of list-API ports.
MaxBindings == 2
\* Most containers the runtime holds at the start.
MaxContainers == 3
\* Most times the refresh timer fires.
MaxTicks == 1
\* Most launch requests that pass the validation of the form.
MaxLaunches == 1
\* Most times the form is typed into.
MaxEdits == 1

\* ------------------------------------------------------- program constants

\* container.ID[:12] / container.Id.substring(0, 12)
IdPrefixLen == 12

USERNAME_PREFIX == <<"MONGODB_INITDB_ROOT_USERNAME", "=">>
PASSWORD_PREFIX == <<"MONGODB_INITDB_ROOT_PASSWORD", "=">>
DATABASE_PREFIX == <<"MONGODB_INITDB_DATABASE", "=">>

\* The range of ports the validation of the form accepts.
MinPort == 1
MaxPort == 65535

MongoPortKey == "27017/tcp"
ImageName == "mongodb/mongodb-atlas-local"
LabelKey == "mongodb-atlas-local"
LabelValue == "container"

\* ------------------------------------------------------- string library

\* Go strings.HasPrefix / JS String.prototype.startsWith
HasPrefix(s, prefix) ==
    /\ Len(s) >= Len(prefix)
    /\ SubSeq(s, 1, Len(prefix)) = prefix

\* Go strings.TrimPrefix
TrimPrefix(s, prefix) ==
    IF HasPrefix(s, prefix) THEN SubSeq(s, Len(prefix) + 1, Len(s)) ELSE s

\* Go map index: the zero value (a nil slice) for a key that is absent.
MapIndex(m, k) == IF k \in DOMAIN m THEN m[k] ELSE <<>>

\* Go map index on map[string]string: "" for a key that is absent.
LabelIndex(m, k) == IF k \in DOMAIN m THEN m[k] ELSE ""

\* Index of the first occurrence of symbol c in s, 0 when there is none.
IndexOf(s, c) ==
    IF \E i \in 1..Len(s) : s[i] = c
    THEN CHOOSE i \in 1..Len(s) : s[i] = c /\ \A j \in 1..(i - 1) : s[j] # c
    ELSE 0

\* JS String.prototype.split with a one-character separator.
RECURSIVE Split(_, _)
Split(s, sep) ==
    LET i == IndexOf(s, sep) IN
    IF i = 0 THEN <<s>>
    ELSE <<SubSeq(s, 1, i - 1)>> \o Split(SubSeq(s, i + 1, Len(s)), sep)

\* JS String.prototype.replace(c, ''): only the first occurrence goes.
ReplaceFirst(s, c) ==
    LET i == IndexOf(s, c) IN
    IF i = 0 THEN s ELSE SubSeq(s, 1, i - 1) \o SubSeq(s, i + 1, Len(s))

\* JS String.prototype.substring(0, n)
Substring0(s, n) == SubSeq(s, 1, IF n < Len(s) THEN n ELSE Len(s))

Digits == <<"0", "1", "2", "3", "4", "5", "6", "7", "8", "9">>

\* JS template literal `${n}` of a non-negative integer: its decimal digits.
RECURSIVE NumberToString(_)
NumberToString(n) ==
    IF n < 10 THEN <<Digits[n + 1]>>
    ELSE NumberToString(n \div 10) \o <<Digits[(n % 10) + 1]>>

Range(s) == { s[k] : k \in DOMAIN s }

\* An optional value (TS `x?: T`, JSON omitempty): absent or one value.
None == <<>>
Some(x) == <<x>>

\* JS String.prototype.trim: the white space at both ends goes.
RECURSIVE TrimStart(_)
TrimStart(s) ==
    IF s # <<>> /\ Head(s) = " " THEN TrimStart(Tail(s)) ELSE s

RECURSIVE TrimEnd(_)
TrimEnd(s) ==
    IF s # <<>> /\ s[Len(s)] = " " THEN TrimEnd(SubSeq(s, 1, Len(s) - 1)) ELSE s

Trim(s) == TrimEnd(TrimStart(s))

\* JS String.prototype.toLowerCase, on the letters of the Latin alphabet.
UpperCase == <<"A", "B", "C", "D", "E", "F", "G", "H", "I", "J", "K", "L", "M",
               "N", "O", "P", "Q", "R", "S", "T", "U", "V", "W", "X", "Y", "Z">>
LowerCase == <<"a", "b", "c", "d", "e", "f", "g", "h", "i", "j", "k", "l", "m",
               "n", "o", "p", "q", "r", "s", "t", "u", "v", "w", "x", "y", "z">>

toLowerCase(s) ==
    [ k \in DOMAIN s |->
        IF \E n \in DOMAIN UpperCase : UpperCase[n] = s[k]
        THEN LowerCase[CHOOSE n \in DOMAIN UpperCase : UpperCase[n] = s[k]]
        ELSE s[k] ]

\* JS String.prototype.includes: t occurs in s.
includes(s, t) ==
    \E i \in 0..(Len(s) - Len(t)) : SubSeq(s, i + 1, i + Len(t)) = t

LowerHex == Digits \o <<"a", "b", "c", "d", "e", "f">>
UpperHex == Digits \o <<"A", "B", "C", "D", "E", "F">>

\* The value of character c as a digit of the radix, -1 when it is none.
DigitValue(c, radix) ==
    LET v == IF IndexOf(LowerHex, c) > 0 THEN IndexOf(LowerHex, c) - 1
             ELSE IndexOf(UpperHex, c) - 1
    IN  IF v < radix THEN v ELSE -1

\* The longest prefix of s made of digits of the radix.
RECURSIVE DigitsPrefix(_, _)
DigitsPrefix(s, radix) ==
    IF s # <<>> /\ DigitValue(Head(s), radix) >= 0
    THEN <<Head(s)>> \o DigitsPrefix(Tail(s), radix)
    ELSE <<>>

RECURSIVE DigitsToNumber(_, _)
DigitsToNumber(d, radix) ==
    IF d = <<>> THEN 0
    ELSE DigitsToNumber(SubSeq(d, 1, Len(d) - 1), radix) * radix
         + DigitValue(d[Len(d)], radix)

\* JS parseInt(s) without a radix: white space is skipped, a sign is read,
\* "0x" or "0X" selects radix 16, then the longest prefix of digits is the
\* number and what follows it is ignored; NaN (None) without a digit.
parseInt(s) ==
    LET t == TrimStart(s)
        negative == t # <<>> /\ Head(t) = "-"
        u == IF t # <<>> /\ Head(t) \in {"-", "+"} THEN Tail(t) ELSE t
        hex == Len(u) >= 2 /\ u[1] = "0" /\ u[2] \in {"x", "X"}
        radix == IF hex THEN 16 ELSE 10
        d == DigitsPrefix(IF hex THEN SubSeq(u, 3, Len(u)) ELSE u, radix)
    IN  IF d = <<>> THEN None
        ELSE Some(IF negative THEN 0 - DigitsToNumber(d, radix)
                  ELSE DigitsToNumber(d, radix))

\* ------------------------------------------- backend: listContainers (Go)

\* A variant of EnvStep in which a key that was already found is not
\* assigned again (the first occurrence wins).
EnvStepFirstWins(acc, e) ==
    LET a1 == IF HasPrefix(e, USERNAME_PREFIX) /\ acc.username = <<>>
              THEN [acc EXCEPT !.username = TrimPrefix(e, USERNAME_PREFIX)]
              ELSE acc
        a2 == IF HasPrefix(e, PASSWORD_PREFIX) /\ acc.password = <<>>
              THEN [a1 EXCEPT !.password = TrimPrefix(e, PASSWORD_PREFIX)]
              ELSE a1
    IN  IF HasPrefix(e, DATABASE_PREFIX) /\ acc.dbName = <<"test">>
        THEN [a2 EXCEPT !.dbName = TrimPrefix(e, DATABASE_PREFIX)]
        ELSE a2

\* One iteration of the env loop: three independent prefix tests.
EnvStep(acc, e) ==
    LET a1 == IF HasPrefix(e, USERNAME_PREFIX)
              THEN [acc EXCEPT !.username = TrimPrefix(e, USERNAME_PREFIX)]
              ELSE acc
        a2 == IF HasPrefix(e, PASSWORD_PREFIX)
              THEN [a1 EXCEPT !.password = TrimPrefix(e, PASSWORD_PREFIX)]
              ELSE a1
    IN  IF HasPrefix(e, DATABASE_PREFIX)
        THEN [a2 EXCEPT !.dbName = TrimPrefix(e, DATABASE_PREFIX)]
        ELSE a2

RECURSIVE EnvLoop(_, _)
EnvLoop(acc, env) ==
    IF env = <<>> THEN acc ELSE EnvLoop(EnvStep(acc, Head(env)), Tail(env))

\* username, password and dbName after the loop over inspect.Config.Env.
EnvScan(env) ==
    EnvLoop([username |-> <<>>, password |-> <<>>, dbName |-> <<"test">>], env)

\* A variant of port that looks for any binding with a host port other
\* than "0" instead of taking the first.
portAnyBinding(networkPorts) ==
    LET ports == MapIndex(networkPorts, MongoPortKey) IN
    IF \E k \in 1..Len(ports) : ports[k].HostPort # <<"0">>
    THEN ports[CHOOSE k \in 1..Len(ports) :
                 /\ ports[k].HostPort # <<"0">>
                 /\ \A j \in 1..(k - 1) : ports[j].HostPort = <<"0">>].HostPort
    ELSE <<"0">>

\* port: the host port of the first binding of 27017/tcp, "0" without one.
port(networkPorts) ==
    LET ports == MapIndex(networkPorts, MongoPortKey) IN
    IF Len(ports) > 0 THEN ports[1].HostPort ELSE <<"0">>

\* A variant of connectionString that puts credentials in as soon as one
\* of the two is there.
connectionStringEitherCredential(username, password, hostPort, dbName) ==
    IF hostPort # <<"0">>
    THEN IF username # <<>> \/ password # <<>>
         THEN <<"mongodb://">> \o username \o <<":">> \o password
              \o <<"@localhost:">> \o hostPort \o <<"/">> \o dbName
              \o <<"?directConnection=true&authSource=admin">>
         ELSE <<"mongodb://localhost:">> \o hostPort \o <<"/">> \o dbName
              \o <<"?directConnection=true">>
    ELSE <<>>

\* A variant of connectionString without the test for port "0".
connectionStringAnyPort(username, password, hostPort, dbName) ==
    IF username # <<>> /\ password # <<>>
    THEN <<"mongodb://">> \o username \o <<":">> \o password
         \o <<"@localhost:">> \o hostPort \o <<"/">> \o dbName
         \o <<"?directConnection=true&authSource=admin">>
    ELSE <<"mongodb://localhost:">> \o hostPort \o <<"/">> \o dbName
         \o <<"?directConnection=true">>

\* connectionString: "" for port "0", else one of the two formats.
connectionString(username, password, hostPort, dbName) ==
    IF hostPort # <<"0">>
    THEN IF username # <<>> /\ password # <<>>
         THEN <<"mongodb://">> \o username \o <<":">> \o password
              \o <<"@localhost:">> \o hostPort \o <<"/">> \o dbName
              \o <<"?directConnection=true&authSource=admin">>
         ELSE <<"mongodb://localhost:">> \o hostPort \o <<"/">> \o dbName
              \o <<"?directConnection=true">>
    ELSE <<>>

\* container.ID[:12] is evaluated first and panics on a shorter ID.
NamePanics(container) == Len(container.ID) < IdPrefixLen

\* A variant of name that keeps the leading '/'.
nameKeepSlash(container) ==
    IF Len(container.Names) > 0 /\ container.Names[1] # <<>>
    THEN container.Names[1]
    ELSE SubSeq(container.ID, 1, IdPrefixLen)

\* A variant of name that looks for the first non-empty entry of Names.
nameFirstNonEmpty(container) ==
    LET ns == SelectSeq(container.Names, LAMBDA n : n # <<>>) IN
    IF Len(ns) > 0
    THEN IF ns[1][1] = "/" THEN Tail(ns[1]) ELSE ns[1]
    ELSE SubSeq(container.ID, 1, IdPrefixLen)

\* name: Names[0] without its leading '/', or the ID prefix.
name(container) ==
    IF Len(container.Names) > 0 /\ container.Names[1] # <<>>
    THEN IF container.Names[1][1] = "/"
         THEN Tail(container.Names[1])
         ELSE container.Names[1]
    ELSE SubSeq(container.ID, 1, IdPrefixLen)

\* The ListContainersResponse appended for one container.
Row(container, inspect) ==
    LET scan == EnvScan(inspect.Env) IN
    [ Id               |-> container.ID,
      Name             |-> name(container),
      Port             |-> "",
      Status           |-> container.Status,
      Version          |-> LabelIndex(container.Labels, "version"),
      ConnectionString |-> connectionString(scan.username, scan.password,
                              port(inspect.NetworkPorts), scan.dbName) ]

\* A variant of appendRow that puts the new row first.
prependRow(rows, row) == <<row>> \o rows

\* response = append(response, ListContainersResponse{...})
appendRow(rows, row) == Append(rows, row)

\* A variant of newResponse that goes on with the rows of the request
\* before.
keptResponse(old) == old

\* response := []ListContainersResponse{}: every request starts from no
\* rows, whatever the request before left.
newResponse(old) == <<>>

\* `json:",omitempty"`: an empty string is left out of the JSON object.
OmitEmpty(s) == IF s = <<>> THEN None ELSE Some(s)
OmitEmptyText(s) == IF s = "" THEN None ELSE Some(s)

\* What the UI reads of one row of the JSON answer.
JsonRow(row) ==
    [ id               |-> OmitEmpty(row.Id),
      name             |-> OmitEmpty(row.Name),
      status           |-> OmitEmptyText(row.Status),
      version          |-> OmitEmptyText(row.Version),
      connectionString |-> OmitEmpty(row.ConnectionString) ]

JsonRows(rows) == [ k \in 1..Len(rows) |-> JsonRow(rows[k]) ]

\* ------------------------------------------ backend: createContainer (Go)

\* A variant of createPort that passes the port of the body on as it is.
createPortAsSupplied(body) == body.port

\* port := "0"; if body.Port != "" { port = body.Port }
createPort(body) == IF body.port # <<>> THEN body.port ELSE <<"0">>

\* A variant of createEnv that sets both variables whatever the body holds.
createEnvBoth(body) ==
    << USERNAME_PREFIX \o body.username, PASSWORD_PREFIX \o body.password >>

\* env: one entry per credential of the body that is not "".
createEnv(body) ==
    (IF body.username # <<>> THEN << USERNAME_PREFIX \o body.username >> ELSE <<>>)
    \o (IF body.password # <<>> THEN << PASSWORD_PREFIX \o body.password >> ELSE <<>>)

NoLabels == [ k \in {} |-> "" ]

\* A variant of StartTarget that names the container by the short form of
\* its ID.
StartTargetShort(result) == SubSeq(result.ID, 1, IdPrefixLen)

\* c.ContainerStart(containerCtx, result.ID, ...): the container started
\* is the one the create call returned.
StartTarget(result) == result.ID

\* The arguments of ContainerCreate: container.Config, container.HostConfig
\* and the container name.  Config.Labels is not set.
CreateArgs(body) ==
    [ Hostname     |-> body.name,
      Image        |-> ImageName,
      Env          |-> createEnv(body),
      Labels       |-> NoLabels,
      PortBindings |-> (MongoPortKey :>
                          <<[HostIP |-> "0.0.0.0", HostPort |-> createPort(body)]>>),
      Name         |-> body.name ]

\* ------------------------------------------------ the container runtime

\* One container as the runtime holds it: what the list call tells of it
\* (ID, Names, Status, Image, Labels, Ports) and what inspect tells of it
\* (Env, NetworkPorts); State and PortBindings are its life cycle state and
\* the host config it was created with.
Container(id, names, labels, env, networkPorts, ports) ==
    [ ID |-> id, Names |-> names, Status |-> "Up 2 minutes",
      Image |-> ImageName, Labels |-> labels,
      Env |-> env, NetworkPorts |-> networkPorts, Ports |-> ports,
      State |-> "running", PortBindings |-> networkPorts ]

NoPorts == [ k \in {} |-> <<>> ]

HasLabel(c) == LabelIndex(c.Labels, LabelKey) = LabelValue
IsRunning(c) == c.State = "running"

\* A variant of ContainerList without the label filter.
ContainerListUnfiltered(rt) == SelectSeq(rt, LAMBDA c : IsRunning(c))

\* ContainerList with the label filter and without All: the labelled
\* containers that run, in the runtime's order.
ContainerList(rt) == SelectSeq(rt, LAMBDA c : HasLabel(c) /\ IsRunning(c))

\* docker.listContainers({all: true, filters: label}): the labelled
\* containers, running or not.
ContainerListAll(rt) == SelectSeq(rt, HasLabel)

\* The host port the runtime gives to a binding that asks for none.
EphemeralPort == <<"3", "2", "7", "6", "8">>

\* The runtime binds a host port that is a decimal number up to 65535;
\* "" and "0" ask for a free port.
BindablePort(p) ==
    p = <<>> \/ (DigitsPrefix(p, 10) = p /\ DigitsToNumber(p, 10) <= MaxPort)

\* No container of the runtime has the name yet ("" asks for a generated
\* name).
NameFree(rt, n) ==
    n = <<>> \/ \A k \in 1..Len(rt) : <<"/">> \o n \notin Range(rt[k].Names)

\* What the create call is able to do: the port can be bound and the
\* name is free.
Creatable(rt, args) ==
    /\ NameFree(rt, args.Name)
    /\ \A k \in 1..Len(args.PortBindings[MongoPortKey]) :
          BindablePort(args.PortBindings[MongoPortKey][k].HostPort)

\* The container the create call adds: the labels are those of the image
\* and of the config, the ports are not published before the start.
Created(id, args, imageLabels) ==
    [ Container(id,
                << <<"/">> \o (IF args.Name = <<>> THEN <<"g">> \o SubSeq(id, 1, 1)
                                ELSE args.Name) >>,
                args.Labels @@ imageLabels, args.Env, NoPorts, <<>>)
      EXCEPT !.Status = "Created", !.State = "created",
             !.PortBindings = args.PortBindings ]

PublishedPort(p) == IF p \in { <<>>, <<"0">> } THEN EphemeralPort ELSE p

\* The container after its start: it runs and its bindings are published.
Started(c) ==
    LET bound == [ j \in 1..Len(c.PortBindings[MongoPortKey]) |->
                     PublishedPort(c.PortBindings[MongoPortKey][j].HostPort) ]
    IN  [ c EXCEPT !.Status = "Up Less than a second", !.State = "running",
            !.NetworkPorts = (MongoPortKey :>
                [ j \in 1..Len(bound) |->
                    [HostIP |-> "0.0.0.0", HostPort |-> bound[j]] ]),
            !.Ports = [ j \in 1..Len(bound) |->
                          [PrivatePort |-> 27017,
                           PublicPort |-> DigitsToNumber(bound[j], 10)] ] ]

\* ContainerCreate and ContainerStart on the runtime.
RuntimeCreate(rt, id, args, imageLabels) ==
    Append(rt, Created(id, args, imageLabels))

RuntimeStart(rt, id) ==
    [ k \in 1..Len(rt) |-> IF rt[k].ID = id THEN Started(rt[k]) ELSE rt[k] ]

\* A variant of AfterStartFailed that takes the created container away
\* again.
RolledBack(rt, id) == SelectSeq(rt, LAMBDA c : c.ID # id)

\* The runtime after a start that failed: the handler returns the error
\* and calls nothing else, the created container stays.
AfterStartFailed(rt, id) == rt

\* ContainerInspect by ID succeeds on a container the runtime holds.
Inspectable(rt, id) == \E k \in 1..Len(rt) : rt[k].ID = id
ContainerInspect(rt, id) ==
    rt[CHOOSE k \in 1..Len(rt) : rt[k].ID = id]

\* ------------------------------- UI revision "cli": ui/src/App.tsx (TS)

\* One iteration of the envVars loop: an else-if chain, the value taken
\* as the second piece of envVar.split('=').
UiEnvStep(acc, envVar) ==
    IF HasPrefix(envVar, USERNAME_PREFIX)
    THEN [acc EXCEPT !.username = Split(envVar, "=")[2]]
    ELSE IF HasPrefix(envVar, PASSWORD_PREFIX)
    THEN [acc EXCEPT !.password = Split(envVar, "=")[2]]
    ELSE IF HasPrefix(envVar, DATABASE_PREFIX)
    THEN [acc EXCEPT !.database = Split(envVar, "=")[2]]
    ELSE acc

RECURSIVE UiEnvLoop(_, _)
UiEnvLoop(acc, envVars) ==
    IF envVars = <<>> THEN acc
    ELSE UiEnvLoop(UiEnvStep(acc, Head(envVars)), Tail(envVars))

UiEnvScan(envVars) ==
    UiEnvLoop([username |-> <<>>, password |-> <<>>, database |-> <<"test">>],
              envVars)

\* Whether generateMongoDBConnectionString reaches its `docker inspect`.
InspectNeeded(container) ==
    Len(container.Ports) > 0 /\ container.Ports[1].PublicPort # 0

\* generateMongoDBConnectionString: undefined without a first port that
\* has a (truthy) PublicPort; inspectOk tells whether `docker inspect` and
\* the parse of its output succeeded (the catch branch otherwise).
generateMongoDBConnectionString(container, inspectOk, envVars) ==
    IF InspectNeeded(container)
    THEN LET publicPort == NumberToString(container.Ports[1].PublicPort)
             scan == UiEnvScan(envVars)
         IN  IF inspectOk
             THEN IF scan.username # <<>> /\ scan.password # <<>>
                  THEN Some(<<"mongodb://">> \o scan.username \o <<":">>
                            \o scan.password \o <<"@localhost:">> \o publicPort
                            \o <<"/">> \o scan.database
                            \o <<"?directConnection=true&authSource=admin">>)
                  ELSE Some(<<"mongodb://localhost:">> \o publicPort \o <<"/">>
                            \o scan.database \o <<"?directConnection=true">>)
             ELSE Some(<<"mongodb://localhost:">> \o publicPort \o <<"/">>
                       \o <<"test">> \o <<"?directConnection=true">>)
    ELSE None

\* container.Names[0]?.replace('/', '') || container.Id.substring(0, 12)
rowName(container) ==
    LET replaced == IF Len(container.Names) > 0
                    THEN ReplaceFirst(container.Names[1], "/")
                    ELSE <<>>
    IN  IF replaced # <<>> THEN replaced
        ELSE Substring0(container.ID, IdPrefixLen)

\* The rows set before the connection strings are known.
initialContainers(data) ==
    [ k \in 1..Len(data) |->
        [ id |-> data[k].ID, name |-> rowName(data[k]),
          status |-> data[k].Status, image |-> data[k].Image,
          connectionString |-> None, isLoadingConnectionString |-> TRUE ] ]

\* The row the async callback of containersData.map returns for a
\* container.
processedRow(container, string) ==
    [ id |-> container.ID, name |-> rowName(container),
      status |-> container.Status, image |-> container.Image,
      connectionString |-> string,
      isLoadingConnectionString |-> FALSE ]

\* What the promise of container k settled to; settled holds the promises
\* that have settled, [index, value], in the order in which they did.
SettledValue(settled, k) ==
    settled[CHOOSE n \in 1..Len(settled) : settled[n].index = k].value

\* A variant of processedContainers that takes the rows in the order in
\* which the promises settled.
processedContainersAsSettled(data, settled) ==
    [ n \in 1..Len(settled) |->
        processedRow(data[settled[n].index], settled[n].value) ]

\* The rows Promise.all resolves to: the value of promise k at position k,
\* the order of containersData, whatever the order of settling.
processedContainers(data, settled) ==
    [ k \in 1..Len(data) |-> processedRow(data[k], SettledValue(settled, k)) ]

\* ------------------- UI revision "service": lib.ts (ContainerService)

NoErrors == [ k \in {} |-> "" ]

UsernameRequired == "Username is required when authentication is enabled"
PasswordRequired == "Password is required when authentication is enabled"
PortOutOfRange == "Port must be a number between 1 and 65535"

\* The characters of the texts the rows hold as whole values: the version
\* labels and the image.
Characters(text) ==
    CASE text = "8.0" -> <<"8", ".", "0">>
      [] text = "7.0" -> <<"7", ".", "0">>
      [] text = "mongodb/mongodb-atlas-local" ->
             <<"m", "o", "n", "g", "o", "d", "b", "/", "m", "o", "n", "g", "o",
               "d", "b", "-", "a", "t", "l", "a", "s", "-", "l", "o", "c", "a",
               "l">>
      [] OTHER -> <<>>

\* What a call ends in: it returns rows or throws a TypeError.
Returned(rows) == [outcome |-> "return", rows |-> rows]
Thrown == [outcome |-> "throw", rows |-> <<>>]

\* first.toLowerCase().includes(c) || second.toLowerCase().includes(c) of
\* two fields of a row, None for a field the row does not have:
\* toLowerCase of undefined throws, and || reads the second field only
\* when the first does not match.
rowIncludes(first, second, searchCriteria) ==
    IF first = None THEN "throw"
    ELSE IF includes(toLowerCase(first[1]), searchCriteria) THEN "yes"
    ELSE IF second = None THEN "throw"
    ELSE IF includes(toLowerCase(second[1]), searchCriteria) THEN "yes"
    ELSE "no"

\* The version of a row of the JSON answer, as characters.
versionOf(container) ==
    IF container.version = None THEN None
    ELSE Some(Characters(container.version[1]))

\* filterContainers: all rows for a blank criteria, else the rows whose
\* name or version includes the criteria, lower case on both sides;
\* Array.prototype.filter calls the test on every row in order.
filterContainers(containers, criteria) ==
    IF Trim(criteria) = <<>> THEN Returned(containers)
    ELSE LET searchCriteria == toLowerCase(criteria)
             test(container) ==
                 rowIncludes(container.name, versionOf(container), searchCriteria)
         IN  IF \E k \in DOMAIN containers : test(containers[k]) = "throw"
             THEN Thrown
             ELSE Returned(SelectSeq(containers, LAMBDA c : test(c) = "yes"))

\* A variant of validateLaunchForm that returns at the first rule that
\* fails.
validateLaunchFormFirstError(options) ==
    IF options.authChoice = "auth" /\ Trim(options.username) = <<>>
    THEN ("username" :> UsernameRequired)
    ELSE IF options.authChoice = "auth" /\ Trim(options.password) = <<>>
    THEN ("password" :> PasswordRequired)
    ELSE IF Trim(options.customPort) # <<>>
            /\ LET portNum == parseInt(Trim(options.customPort))
               IN  portNum = None \/ portNum[1] < MinPort \/ portNum[1] > MaxPort
    THEN ("port" :> PortOutOfRange)
    ELSE NoErrors

\* validateLaunchForm: the errors object, one key per rule that fails.
validateLaunchForm(options) ==
    LET usernameError ==
            IF options.authChoice = "auth" /\ Trim(options.username) = <<>>
            THEN ("username" :> UsernameRequired) ELSE NoErrors
        passwordError ==
            IF options.authChoice = "auth" /\ Trim(options.password) = <<>>
            THEN ("password" :> PasswordRequired) ELSE NoErrors
        portError ==
            IF Trim(options.customPort) # <<>>
            THEN LET portNum == parseInt(Trim(options.customPort))
                 IN  IF portNum = None \/ portNum[1] < MinPort
                                       \/ portNum[1] > MaxPort
                     THEN ("port" :> PortOutOfRange) ELSE NoErrors
            ELSE NoErrors
    IN  usernameError @@ passwordError @@ portError

\* launchContainer: the body of POST /containers, every field trimmed and
\* none of them depending on authChoice.
launchBody(options) ==
    [ name     |-> Trim(options.containerName),
      port     |-> Trim(options.customPort),
      username |-> Trim(options.username),
      password |-> Trim(options.password) ]

\* ------------------- UI revision "cli": the filter of ui/src/App.tsx

\* The useMemo of filteredContainers: all rows for a blank filterCriteria,
\* else the rows whose name or image includes it, lower case on both sides.
filterByNameOrImage(containers, filterCriteria) ==
    IF Trim(filterCriteria) = <<>> THEN Returned(containers)
    ELSE LET criteria == toLowerCase(filterCriteria)
             test(container) ==
                 rowIncludes(Some(container.name),
                             Some(Characters(container.image)), criteria)
         IN  Returned(SelectSeq(containers, LAMBDA c : test(c) = "yes"))

\* ------------------- UI revision "cli": the launch of ui/src/App.tsx

\* validateForm: the same three rules on the state of the form.
validateForm(form) ==
    LET usernameError ==
            IF form.authChoice = "auth" /\ Trim(form.username) = <<>>
            THEN ("username" :> UsernameRequired) ELSE NoErrors
        passwordError ==
            IF form.authChoice = "auth" /\ Trim(form.password) = <<>>
            THEN ("password" :> PasswordRequired) ELSE NoErrors
        portError ==
            IF Trim(form.customPort) # <<>>
            THEN LET portNum == parseInt(Trim(form.customPort))
                 IN  IF portNum = None \/ portNum[1] < MinPort
                                       \/ portNum[1] > MaxPort
                     THEN ("port" :> PortOutOfRange) ELSE NoErrors
            ELSE NoErrors
    IN  usernameError @@ passwordError @@ portError

\* runArgs: the arguments of `docker run`.
runArgs(form) ==
    << <<"-d">> >>
    \o (IF Trim(form.containerName) # <<>>
        THEN << <<"--name">>, Trim(form.containerName) >> ELSE <<>>)
    \o (IF Trim(form.customPort) # <<>>
        THEN << <<"-p">>, Trim(form.customPort) \o <<":27017">> >>
        ELSE << <<"-P">> >>)
    \o (IF form.authChoice = "auth"
        THEN (IF Trim(form.username) # <<>>
              THEN << <<"-e">>, USERNAME_PREFIX \o Trim(form.username) >>
              ELSE <<>>)
             \o (IF Trim(form.password) # <<>>
                 THEN << <<"-e">>, PASSWORD_PREFIX \o Trim(form.password) >>
                 ELSE <<>>)
        ELSE <<>>)
    \o << <<ImageName>> >>

\* The arguments that follow the occurrences of flag.
RECURSIVE ArgsAfter(_, _)
ArgsAfter(args, flag) ==
    IF Len(args) < 2 THEN <<>>
    ELSE IF Head(args) = flag
    THEN <<args[2]>> \o ArgsAfter(SubSeq(args, 3, Len(args)), flag)
    ELSE ArgsAfter(Tail(args), flag)

\* What `docker run` asks of the runtime for these arguments: -p H:27017
\* binds host port H, -P publishes the port of the image to a free one.
RunCreateArgs(args) ==
    LET names == ArgsAfter(args, <<"--name">>)
        publish == ArgsAfter(args, <<"-p">>)
    IN  [ Hostname     |-> <<>>,
          Image        |-> args[Len(args)][1],
          Env          |-> ArgsAfter(args, <<"-e">>),
          Labels       |-> NoLabels,
          PortBindings |-> (MongoPortKey :>
              <<[HostIP |-> "0.0.0.0",
                 HostPort |-> IF publish # <<>>
                              THEN SubSeq(publish[1], 1, Len(publish[1]) - 1)
                              ELSE <<>>]>>),
          Name         |-> IF names # <<>> THEN names[1] ELSE <<>> ]

\* ------------------------------------------------------------- inputs

UpTo(S, n) == UNION { [1..k -> S] : k \in 0..n }

\* An ID of n symbols that starts with c.
MkId(c, n) == [ k \in 1..n |-> IF k = 1 THEN c ELSE Digits[((k - 1) % 10) + 1] ]

LongId(c) == MkId(c, IdPrefixLen + 1)
ShortId(c) == MkId(c, 3)

EnvEntries ==
    { USERNAME_PREFIX \o <<"a">>,
      USERNAME_PREFIX,
      PASSWORD_PREFIX \o <<"b">>,
      PASSWORD_PREFIX \o <<"b", "=", "c">>,
      DATABASE_PREFIX \o <<"d">>,
      DATABASE_PREFIX \o <<"d", "=", "e">>,
      <<"X">> \o USERNAME_PREFIX \o <<"z">> }

NameStrings == { <<>>, <<"/">>, <<"/", "m">>, <<"m">> }

HostPorts == { <<"0">>, <<>>, <<"2", "7", "0", "1", "7">> }
Bindings == { [HostIP |-> "0.0.0.0", HostPort |-> h] : h \in HostPorts }

\* inspect.NetworkSettings.Ports: container port -> host bindings.
NetworkPortMaps ==
    { [ k \in D |-> IF k = MongoPortKey THEN b
                    ELSE <<[HostIP |-> "0.0.0.0", HostPort |-> <<"8", "0">>]>> ]
      : D \in SUBSET { MongoPortKey, "8080/tcp" },
        b \in UpTo(Bindings, MaxBindings) }

\* Ports of the list API; PublicPort 0 stands for a port that is not
\* published (the field is absent or 0, both falsy).
PortEntries ==
    { [PrivatePort |-> 27017, PublicPort |-> 0],
      [PrivatePort |-> 27017, PublicPort |-> 27017],
      [PrivatePort |-> 8080, PublicPort |-> 80] }

Labelled == (LabelKey :> LabelValue) @@ ("version" :> "8.0")

OnePort == (MongoPortKey :> <<[HostIP |-> "0.0.0.0",
                               HostPort |-> <<"2", "7", "0", "1", "7">>]>>)

\* Single containers of every shape of ID and names.
NameInputs ==
    { Container(id, names, Labelled, <<>>, OnePort,
                <<[PrivatePort |-> 27017, PublicPort |-> 27017]>>)
      : id \in { LongId("a"), MkId("a", IdPrefixLen), ShortId("a") },
        names \in UpTo(NameStrings, MaxNames) }

Published == <<[PrivatePort |-> 27017, PublicPort |-> 27017]>>

\* Single containers of every env, with the MongoDB port published.
EnvInputs ==
    { Container(LongId("a"), << <<"/", "m">> >>, Labelled, env, OnePort, Published)
      : env \in UpTo(EnvEntries, MaxEnv) }

\* Single containers of every shape of ports, with and without credentials;
\* a revision reads either the inspected bindings or the listed ports.
PortInputs(v) ==
    { Container(LongId("a"), << <<"/", "m">> >>, Labelled, env,
                IF v = "service" THEN np ELSE NoPorts,
                IF v = "cli" THEN ps ELSE <<>>)
      : env \in { <<>>, << USERNAME_PREFIX \o <<"a">>, PASSWORD_PREFIX \o <<"b">> >> },
        np \in NetworkPortMaps,
        ps \in UpTo(PortEntries, MaxBindings) }

RowInputs(v) == NameInputs \cup EnvInputs \cup PortInputs(v)

\* The containers of the multi-container runtimes.
SampleContainers ==
    { Container(LongId("a"), << <<"/", "m">> >>, Labelled,
                << USERNAME_PREFIX \o <<"a">>, PASSWORD_PREFIX \o <<"b">> >>,
                OnePort, <<[PrivatePort |-> 27017, PublicPort |-> 27017]>>),
      Container(LongId("b"), <<>>, Labelled, <<>>, NoPorts, <<>>),
      Container(LongId("c"), << <<"/", "x">> >>, ("version" :> "7.0"),
                <<>>, OnePort, <<[PrivatePort |-> 27017, PublicPort |-> 27017]>>),
      Container(ShortId("d"), << <<"/", "s">> >>, (LabelKey :> LabelValue),
                <<>>, NoPorts, <<>>),
      Container(LongId("e"), << <<"/", "N">> >>, (LabelKey :> LabelValue), <<>>,
                (MongoPortKey :> <<[HostIP |-> "0.0.0.0",
                                    HostPort |-> <<"2", "7", "0", "1", "9">>]>>),
                <<[PrivatePort |-> 27017, PublicPort |-> 27019]>>) }

\* Runtimes: sequences of containers with pairwise different IDs.
SampleRuntimes ==
    { rt \in UpTo(SampleContainers, MaxContainers) :
        \A j, k \in 1..Len(rt) : j # k => rt[j].ID # rt[k].ID }

\* The runtime of the runs that launch from any form: one container that
\* has the name a form may ask for.
LaunchRuntimeInputs ==
    { Container(ShortId("a"), << <<"/", "m">> >>, Labelled, <<>>, OnePort, Published) }

\* The runtimes of the runs of the whole extension.
UIRuntimeInputs ==
    { << Container(LongId("a"), << <<"/", "m">> >>, Labelled,
                   << USERNAME_PREFIX \o <<"a">>, PASSWORD_PREFIX \o <<"b">> >>,
                   OnePort, Published) >>,
      << Container(ShortId("d"), << <<"/", "s">> >>, (LabelKey :> LabelValue),
                   <<>>, NoPorts, <<>>) >> }

\* The texts typed into the filter field.
CriteriaInputs ==
    { <<>>, <<" ">>, <<"m">>, <<"M">>, <<" ", "m">>, <<"n">>, <<"8">>,
      <<"8", ".", "0">>, <<"l", "o", "c">>, <<"z">> }

\* The errors of the calls of the runtime, one per kind of call.
ClientErrors == { "cannot connect to the Docker daemon" }
ListErrors == { "connection refused" }
InspectErrors == { "deadline exceeded" }
CreateErrors == { "name is already in use" }
StartErrors == { "port is already allocated" }

\* The labels of the image the runtime creates the container from: the
\* create call names the image and sets no label, so the labels are those
\* the image the runtime holds under that name has.
ImageLabelSets == { Labelled, ("version" :> "8.0") }

\* The ID the runtime gives to the n-th container it creates.
NewId(n) == MkId(Digits[n + 1], IdPrefixLen + 1)

\* The form as the dialog opens it.
InitialForm ==
    [ containerName |-> <<>>, customPort |-> <<>>, authChoice |-> "auth",
      username |-> <<>>, password |-> <<>> ]

\* Texts typed into the port field.
PortTexts ==
    { <<>>, <<" ">>,
      <<"2", "7", "0", "1", "7">>, <<" ", "2", "7", "0", "1", "7", " ">>,
      <<"7", "0", "0", "0", "0">>, <<"6", "5", "5", "3", "6">>,
      <<"6", "5", "5", "3", "5">>, <<"1">>, <<"0">>, <<"-", "1">>, <<"a", "b", "c">>,
      <<"2", "7", "0", "1", "7", "a", "b", "c">>, <<"1", ".", "5">>,
      <<"0", "x", "5", "0">> }

UsernameTexts == { <<>>, <<" ">>, <<"a">> }
PasswordTexts == { <<>>, <<" ">>, <<"x">> }
NameTexts == { <<>>, <<"m">> }

\* The forms a user can have typed when Launch is clicked.
FormInputs ==
    { [ containerName |-> n, customPort |-> p, authChoice |-> a,
        username |-> u, password |-> w ]
      : n \in NameTexts, p \in PortTexts, a \in { "auth", "skip" },
        u \in UsernameTexts, w \in PasswordTexts }

\* The form of the runs on several containers: Skip Authentication with
\* credentials left in the fields, and a port.
SampleForm ==
    [ InitialForm EXCEPT !.authChoice = "skip", !.username = <<"a">>,
                         !.password = <<"x">>,
                         !.customPort = <<"2", "7", "0", "1", "8">> ]

\* The forms typing leads to: the fields filled in for a launch.
EditInputs == { SampleForm }

\* -------------------------------------------------------------- state

\* The positions of the fetches in flight: the one on mount, those of the
\* timer and those after a launch.
FetchIndex == 1..(1 + MaxTicks + MaxLaunches)

\* The positions of the containers of one list answer.
RowIndex == 1..(MaxContainers + MaxLaunches)


VARIABLES
    variant,        \* which revision runs: "service" or "cli"
    runtime,        \* the runtime's containers, in the order it lists them
    calls,          \* the runtime calls of a listing, with their errors: of the
                    \* handler's request ("service"), of the fetch that set the
                    \* containers state last ("cli")
    \* backend, the handler of GET /containers
    pc,             \* "idle", "loop" (between two inspect calls), "done"
    containers,     \* what ContainerList returned
    idx,            \* position of the range loop in containers
    response,       \* rows appended so far
    result,         \* what the handler returned
    listedFrom,     \* the runtime as it was when ContainerList was called
    listings,       \* the request answered with rows last, none before the first
    \* backend, the handler of POST /containers
    created,        \* what ContainerCreate returned, None before it has
    launchCalls,    \* the create and start calls of the launch, with their errors
    \* UI
    mounted,        \* useEffect has run
    ticks,          \* how often the timer has fired
    loading,
    error,
    uiContainers,   \* the React state `containers`
    containersData, \* "cli": the list answer the containers state was set from
    fetches,        \* the fetchContainers calls in flight, oldest first
    filterCriteria, \* the text of the filter field
    form,           \* containerName, customPort, authChoice, username, password
    validationErrors,
    showLaunchDialog,
    edits,          \* how often the form was typed into
    locals,         \* options and errors of the last handleLaunchContainer, None
                    \* before the first
    launchPc,       \* "post" while the POST or `docker run` is awaited, else "idle"
    request,        \* the launch followed: the options it was clicked with, and
                    \* what it sent (the POST body or the run args)
    launchResult,   \* how the POST or `docker run` ended
    launches        \* launches that passed the validation so far

beVars == <<pc, containers, idx, response, result, listedFrom, listings>>
createVars == <<created, launchCalls>>
uiVars == <<mounted, ticks, loading, error, uiContainers, containersData, fetches>>
launchVars == <<form, showLaunchDialog, edits, locals, validationErrors, launchPc,
                request, launchResult, launches>>
vars == <<variant, filterCriteria, runtime, calls, pc, containers, idx, response, result,
          listedFrom, listings, created, launchCalls, mounted, ticks, loading, error,
          uiContainers, containersData, fetches, form, showLaunchDialog, edits,
          locals, validationErrors, launchPc, request, launchResult, launches>>

\* No request was answered yet.
NoResult == [outcome |-> "none", body |-> None, error |-> ""]
\* ctx.JSON(http.StatusOK, rows)
Ok(rows) == [outcome |-> "ok", body |-> Some(rows), error |-> ""]
\* A variant of Failed that answers with the rows computed so far.
ReturnPartial(e) == Ok(response)
\* return err: the error handler answers with the error and no rows.
Failed(e) == [outcome |-> "error", body |-> None, error |-> e]
\* The handler panicked: the server drops the request.
Panicked == [outcome |-> "panic", body |-> None, error |-> ""]

Call(op, id, e) == [op |-> op, id |-> id, err |-> e]

\* One call of fetchContainers that has not returned yet.  "service": "get"
\* (the request waits for the handler), "handling", "got" (the answer is
\* there, the continuation has not run).  "cli": "list" (listContainers is
\* awaited), "inspect" (Promise.all is awaited).  by tells who called:
\* "mount", "timer" or "launch".
NewFetch(v, by) ==
    [ pc |-> IF v = "service" THEN "get" ELSE "list", by |-> by,
      data |-> <<>>, pending |-> {}, settled |-> <<>>, calls |-> <<>>,
      result |-> NoResult ]

Remove(s, k) == SubSeq(s, 1, k - 1) \o SubSeq(s, k + 1, Len(s))

\* The answer of the handler reaches the fetch it was working for.
Deliver(fs, res) ==
    [ k \in 1..Len(fs) |->
        IF fs[k].pc = "handling"
        THEN [fs[k] EXCEPT !.pc = "got", !.result = res]
        ELSE fs[k] ]

\* The request answered last after one more.
Remember(ls, l) == <<l>>

InitRest ==
    /\ pc = "idle" /\ containers = <<>> /\ idx = 0 /\ response = <<>>
    /\ result = NoResult /\ calls = <<>>
    /\ listedFrom = <<>> /\ listings = <<>>
    /\ created = None /\ launchCalls = <<>>
    /\ mounted = FALSE /\ ticks = 0 /\ loading = FALSE /\ error = None
    /\ uiContainers = <<>> /\ containersData = <<>> /\ fetches = <<>>
    /\ validationErrors = NoErrors /\ launchPc = "idle"
    /\ locals = None /\ edits = 0
    /\ filterCriteria = <<>>
    /\ request = None /\ launchResult = NoResult /\ launches = 0

\* Several containers.
Init ==
    /\ variant \in {"service", "cli"}
    /\ runtime \in SampleRuntimes
    /\ form = InitialForm /\ showLaunchDialog = FALSE
    /\ InitRest

\* The whole extension on a runtime with one container, the dialog open
\* with a form to launch from.
InitUI ==
    /\ variant \in {"service", "cli"}
    /\ runtime \in UIRuntimeInputs
    /\ form = SampleForm /\ showLaunchDialog = TRUE
    /\ InitRest

\* One container of any shape.
InitRow ==
    /\ variant \in {"service", "cli"}
    /\ runtime \in { <<c>> : c \in RowInputs(variant) }
    /\ form = InitialForm /\ showLaunchDialog = FALSE
    /\ InitRest

\* No container or one, the dialog open with any form typed into it.
InitLaunch ==
    /\ variant \in {"service", "cli"}
    /\ runtime \in { <<>> } \cup { <<c>> : c \in LaunchRuntimeInputs }
    /\ form \in FormInputs /\ showLaunchDialog = TRUE
    /\ InitRest

\* ------------------------------------------------ UI: fetchContainers

\* fetchContainers begins: setLoading(true), setError(null), and the call
\* of the service or of the runtime is awaited.
StartFetch(by) ==
    /\ loading' = TRUE /\ error' = None
    /\ fetches' = Append(fetches, NewFetch(variant, by))

\* useEffect on mount: the first fetchContainers, and the timer is set.
Mount ==
    /\ ~mounted
    /\ mounted' = TRUE
    /\ StartFetch("mount")
    /\ UNCHANGED <<variant, filterCriteria, runtime, calls, ticks, uiContainers, containersData>>
    /\ UNCHANGED <<beVars, createVars, launchVars>>

\* The timer fires: fetchContainers is called whatever is in flight.
TimerTick ==
    /\ mounted
    /\ ticks < MaxTicks
    /\ ticks' = ticks + 1
    /\ StartFetch("timer")
    /\ UNCHANGED <<variant, filterCriteria, runtime, calls, mounted, uiContainers, containersData>>
    /\ UNCHANGED <<beVars, createVars, launchVars>>

\* A variant of SetContainers that drops the answer of a fetch that is not
\* the newest one in flight.
SetContainersIfNewest(old, rows, k) ==
    IF k = Len(fetches) THEN rows ELSE old

\* setContainers(rows) in the continuation of the k-th fetch in flight.
SetContainers(old, rows, k) == rows

\* A variant of KeptContainers that empties the table when a fetch fails.
ClearedContainers(old) == <<>>

\* The containers state after the catch of fetchContainers, which calls
\* setError and not setContainers.
KeptContainers(old) == old

\* The fetch returns: finally setLoading(false); a launch that awaited it
\* goes on to its own finally, which does the same.
FetchReturns(k) ==
    /\ loading' = FALSE
    /\ fetches' = Remove(fetches, k)

\* --------------------------------------- backend actions: GET /containers

\* A request of the UI waits for the handler.
Waiting(k) ==
    /\ variant = "service" /\ pc \in {"idle", "done"}
    /\ k \in 1..Len(fetches) /\ fetches[k].pc = "get"

\* client.NewClientWithOpts fails: the handler returns the error.
ListContainersClientErr ==
    /\ \E k \in FetchIndex, e \in ClientErrors :
         /\ Waiting(k)
         /\ result' = Failed(e)
         /\ fetches' = [fetches EXCEPT ![k].pc = "got", ![k].result = Failed(e)]
    /\ pc' = "done" /\ containers' = <<>> /\ idx' = 0 /\ response' = <<>>
    /\ calls' = <<>>
    /\ UNCHANGED <<variant, filterCriteria, runtime, listedFrom, listings>>
    /\ UNCHANGED <<mounted, ticks, loading, error, uiContainers, containersData>>
    /\ UNCHANGED <<createVars, launchVars>>

\* ContainerList fails: the handler returns the error.
ListContainersListErr ==
    /\ \E k \in FetchIndex, e \in ListErrors :
         /\ Waiting(k)
         /\ result' = Failed(e)
         /\ calls' = <<Call("list", <<>>, e)>>
         /\ fetches' = [fetches EXCEPT ![k].pc = "got", ![k].result = Failed(e)]
    /\ pc' = "done" /\ containers' = <<>> /\ idx' = 0 /\ response' = <<>>
    /\ UNCHANGED <<variant, filterCriteria, runtime, listedFrom, listings>>
    /\ UNCHANGED <<mounted, ticks, loading, error, uiContainers, containersData>>
    /\ UNCHANGED <<createVars, launchVars>>

\* ContainerList succeeds: response := [] and the loop begins.
ListContainersListOk ==
    /\ \E k \in FetchIndex :
         /\ Waiting(k)
         /\ fetches' = [fetches EXCEPT ![k].pc = "handling"]
    /\ containers' = ContainerList(runtime)
    /\ listedFrom' = runtime
    /\ response' = newResponse(response) /\ idx' = 1 /\ pc' = "loop"
    /\ result' = NoResult
    /\ calls' = <<Call("list", <<>>, "")>>
    /\ UNCHANGED <<variant, filterCriteria, runtime, listings>>
    /\ UNCHANGED <<mounted, ticks, loading, error, uiContainers, containersData>>
    /\ UNCHANGED <<createVars, launchVars>>

\* One iteration whose ContainerInspect fails: return err.
InspectErr ==
    /\ pc = "loop" /\ idx <= Len(containers)
    /\ \E e \in InspectErrors :
         /\ result' = Failed(e)
         /\ calls' = Append(calls, Call("inspect", containers[idx].ID, e))
         /\ fetches' = Deliver(fetches, Failed(e))
    /\ pc' = "done"
    /\ UNCHANGED <<variant, filterCriteria, runtime, containers, idx, response, listedFrom, listings>>
    /\ UNCHANGED <<mounted, ticks, loading, error, uiContainers, containersData>>
    /\ UNCHANGED <<createVars, launchVars>>

\* One iteration that panics at container.ID[:12]; no response is written.
InspectPanic ==
    /\ pc = "loop" /\ idx <= Len(containers)
    /\ Inspectable(runtime, containers[idx].ID)
    /\ NamePanics(containers[idx])
    /\ calls' = Append(calls, Call("inspect", containers[idx].ID, ""))
    /\ result' = Panicked
    /\ fetches' = Deliver(fetches, Panicked)
    /\ pc' = "done"
    /\ UNCHANGED <<variant, filterCriteria, runtime, containers, idx, response, listedFrom, listings>>
    /\ UNCHANGED <<mounted, ticks, loading, error, uiContainers, containersData>>
    /\ UNCHANGED <<createVars, launchVars>>

\* One whole iteration: inspect, derive the row, append it.
InspectOk ==
    /\ pc = "loop" /\ idx <= Len(containers)
    /\ Inspectable(runtime, containers[idx].ID)
    /\ ~NamePanics(containers[idx])
    /\ calls' = Append(calls, Call("inspect", containers[idx].ID, ""))
    /\ response' = appendRow(response,
                      Row(containers[idx],
                          ContainerInspect(runtime, containers[idx].ID)))
    /\ idx' = idx + 1
    /\ UNCHANGED <<variant, filterCriteria, runtime, pc, containers, result, listedFrom, listings>>
    /\ UNCHANGED <<uiVars, createVars, launchVars>>

\* The loop is over: ctx.JSON(http.StatusOK, response).
Respond ==
    /\ pc = "loop" /\ idx > Len(containers)
    /\ result' = Ok(response)
    /\ fetches' = Deliver(fetches, Ok(response))
    /\ listings' = Remember(listings, [from |-> listedFrom, rows |-> response])
    /\ pc' = "done"
    /\ UNCHANGED <<variant, filterCriteria, runtime, containers, idx, response, calls, listedFrom>>
    /\ UNCHANGED <<mounted, ticks, loading, error, uiContainers, containersData>>
    /\ UNCHANGED <<createVars, launchVars>>

\* ----------------------- UI "service": the continuation of fetchContainers

\* The answer of GET /containers is there: setContainers with its rows, or
\* the catch with the error of a request that failed.
FetchApply(k) ==
    /\ variant = "service"
    /\ k \in 1..Len(fetches) /\ fetches[k].pc = "got"
    /\ IF fetches[k].result.outcome = "ok"
       THEN /\ uiContainers' = SetContainers(uiContainers,
                                   JsonRows(fetches[k].result.body[1]), k)
            /\ error' = error
       ELSE /\ error' = Some(IF fetches[k].result.outcome = "error"
                             THEN fetches[k].result.error
                             ELSE "Failed to fetch containers")
            /\ uiContainers' = KeptContainers(uiContainers)
    /\ FetchReturns(k)
    /\ UNCHANGED <<variant, filterCriteria, runtime, calls, mounted, ticks, containersData>>
    /\ UNCHANGED <<beVars, createVars>>
    /\ UNCHANGED launchVars

\* ------------------------------------- UI "cli" actions: fetchContainers

\* listContainers rejects: the catch sets error, finally clears loading.
FetchListErr(k) ==
    /\ variant = "cli"
    /\ k \in 1..Len(fetches) /\ fetches[k].pc = "list"
    /\ \E e \in ListErrors : error' = Some(e)
    /\ uiContainers' = KeptContainers(uiContainers)
    /\ FetchReturns(k)
    /\ UNCHANGED <<variant, filterCriteria, runtime, calls, mounted, ticks, containersData>>
    /\ UNCHANGED <<beVars, createVars>>
    /\ UNCHANGED launchVars

\* listContainers resolves: the initial rows are shown and one
\* generateMongoDBConnectionString starts per container.
FetchListOk(k) ==
    /\ variant = "cli"
    /\ k \in 1..Len(fetches) /\ fetches[k].pc = "list"
    /\ LET data == ContainerListAll(runtime) IN
         /\ fetches' = [fetches EXCEPT ![k].pc = "inspect", ![k].data = data,
                                       ![k].pending = 1..Len(data),
                                       ![k].calls = <<Call("list", <<>>, "")>>]
         /\ uiContainers' = SetContainers(uiContainers, initialContainers(data), k)
         /\ containersData' = data
    /\ calls' = <<Call("list", <<>>, "")>>
    /\ UNCHANGED <<variant, filterCriteria, runtime, mounted, ticks, loading, error>>
    /\ UNCHANGED <<beVars, createVars, launchVars>>

\* Container j's connection string settles, `docker inspect` having worked
\* (or not having been needed).
GenerateOk(k, j) ==
    /\ k \in 1..Len(fetches) /\ fetches[k].pc = "inspect"
    /\ j \in fetches[k].pending
    /\ LET c == fetches[k].data[j] IN
         /\ Inspectable(runtime, c.ID)
         /\ fetches' = [fetches EXCEPT
              ![k].settled = Append(@, [index |-> j, value |->
                  generateMongoDBConnectionString(c, TRUE,
                      ContainerInspect(runtime, c.ID).Env)]),
              ![k].calls = IF InspectNeeded(c)
                           THEN Append(@, Call("inspect", c.ID, ""))
                           ELSE @,
              ![k].pending = @ \ {j}]
    /\ UNCHANGED <<variant, filterCriteria, runtime, calls, mounted, ticks, loading, error,
                   uiContainers, containersData>>
    /\ UNCHANGED <<beVars, createVars, launchVars>>

\* Container j's connection string settles through the catch branch.
GenerateInspectErr(k, j) ==
    /\ k \in 1..Len(fetches) /\ fetches[k].pc = "inspect"
    /\ j \in fetches[k].pending
    /\ LET c == fetches[k].data[j] IN
         /\ InspectNeeded(c)
         /\ \E e \in InspectErrors :
              fetches' = [fetches EXCEPT
                ![k].settled = Append(@, [index |-> j, value |->
                    generateMongoDBConnectionString(c, FALSE, <<>>)]),
                ![k].calls = Append(@, Call("inspect", c.ID, e)),
                ![k].pending = @ \ {j}]
    /\ UNCHANGED <<variant, filterCriteria, runtime, calls, mounted, ticks, loading, error,
                   uiContainers, containersData>>
    /\ UNCHANGED <<beVars, createVars, launchVars>>

\* Promise.all resolves: the processed rows replace what is shown.
FetchDone(k) ==
    /\ k \in 1..Len(fetches) /\ fetches[k].pc = "inspect"
    /\ fetches[k].pending = {}
    /\ uiContainers' = SetContainers(uiContainers,
                           processedContainers(fetches[k].data, fetches[k].settled), k)
    /\ containersData' = fetches[k].data
    /\ calls' = fetches[k].calls
    /\ FetchReturns(k)
    /\ UNCHANGED <<variant, filterCriteria, runtime, mounted, ticks, error>>
    /\ UNCHANGED <<beVars, createVars>>
    /\ UNCHANGED launchVars

\* ------------------------------------------- UI: handleLaunchContainer

\* validateLaunchForm of lib.ts, validateForm of ui/src/App.tsx.
Validate(v, f) == IF v = "service" THEN validateLaunchForm(f) ELSE validateForm(f)

\* What the launch asks for: the body of the POST, the arguments of the run.
LaunchRequest(v, f) == IF v = "service" THEN launchBody(f) ELSE runArgs(f)

\* The locals of one handleLaunchContainer: the options it read from the
\* form and the errors of their validation.
Locals(v, f) == Some([options |-> f, errors |-> Validate(v, f)])

\* "Launch New Container" is clicked (the button is disabled while
\* loading): the dialog opens.
HandleLaunchClick ==
    /\ mounted /\ ~showLaunchDialog /\ ~loading
    /\ showLaunchDialog' = TRUE
    /\ UNCHANGED <<variant, filterCriteria, runtime, calls, form, edits, locals, validationErrors,
                   launchPc, request, launchResult, launches>>
    /\ UNCHANGED <<beVars, createVars, uiVars>>

\* handleCancelLaunch, the onClose of the dialog and the onClick of its
\* Cancel button: the form is reset and the dialog closes.
HandleCancelLaunch ==
    /\ mounted /\ showLaunchDialog
    /\ form' = InitialForm
    /\ validationErrors' = NoErrors
    /\ showLaunchDialog' = FALSE
    /\ UNCHANGED <<variant, filterCriteria, runtime, calls, edits, locals, launchPc, request,
                   launchResult, launches>>
    /\ UNCHANGED <<beVars, createVars, uiVars>>

\* The user types into the fields of the open dialog.
ChangeForm ==
    /\ mounted /\ showLaunchDialog
    /\ edits < MaxEdits
    /\ edits' = edits + 1
    /\ \E f \in EditInputs : f # form /\ form' = f
    /\ UNCHANGED <<variant, filterCriteria, runtime, calls, showLaunchDialog, locals,
                   validationErrors, launchPc, request, launchResult, launches>>
    /\ UNCHANGED <<beVars, createVars, uiVars>>

\* The filter field is typed into.
ChangeFilterCriteria ==
    /\ \E criteria \in CriteriaInputs :
         criteria # filterCriteria /\ filterCriteria' = criteria
    /\ UNCHANGED <<variant, runtime, calls>>
    /\ UNCHANGED <<beVars, createVars, uiVars, launchVars>>

\* The rows of the table: the useMemo of filteredContainers.
filteredContainers ==
    IF variant = "service" THEN filterContainers(uiContainers, filterCriteria)
    ELSE filterByNameOrImage(uiContainers, filterCriteria)

\* A variant of EarlyReturn that validates after setLoading(true) and
\* setError(null).
ReturnAfterLoading(l, e) == [loading |-> TRUE, error |-> None]

\* loading and error after the return of handleLaunchContainer on a form
\* that does not validate: the return comes before setLoading(true) and
\* setError(null).
EarlyReturn(l, e) == [loading |-> l, error |-> e]

\* "Launch Container" is clicked (the button is disabled while loading)
\* and the form does not validate: the errors are shown and nothing is
\* asked of anyone.
HandleLaunchInvalid ==
    /\ mounted /\ showLaunchDialog /\ ~loading
    /\ Validate(variant, form) # NoErrors
    /\ locals' = Locals(variant, form)
    /\ validationErrors' = Validate(variant, form)
    /\ loading' = EarlyReturn(loading, error).loading
    /\ error' = EarlyReturn(loading, error).error
    /\ UNCHANGED <<variant, filterCriteria, runtime, calls, form, showLaunchDialog, edits, launchPc,
                   request, launchResult, launches>>
    /\ UNCHANGED <<mounted, ticks, uiContainers, containersData, fetches>>
    /\ UNCHANGED <<beVars, createVars>>

\* A variant of ValidErrors that clears the errors in both revisions.
ValidErrorsCleared(v, old) == NoErrors

\* validationErrors after a validation without errors: validateForm of
\* ui/src/App.tsx sets it to the empty errors, handleLaunchContainer of the
\* service revision sets it only when there are errors.
ValidErrors(v, old) == IF v = "cli" THEN NoErrors ELSE old

\* "Launch Container" is clicked and the form validates: setLoading(true),
\* setError(null), and the POST or `docker run` is awaited.  One request is
\* followed at a time: a click while one is awaited is left out.
HandleLaunchContainer ==
    /\ mounted /\ showLaunchDialog /\ ~loading
    /\ launchPc = "idle"
    /\ Validate(variant, form) = NoErrors
    /\ launches < MaxLaunches
    /\ launches' = launches + 1
    /\ locals' = Locals(variant, form)
    /\ validationErrors' = ValidErrors(variant, validationErrors)
    /\ loading' = TRUE /\ error' = None
    /\ request' = Some([options |-> form, sent |-> LaunchRequest(variant, form)])
    /\ launchResult' = NoResult
    /\ launchCalls' = <<>>
    /\ launchPc' = "post"
    /\ UNCHANGED <<variant, filterCriteria, runtime, calls, form, showLaunchDialog, edits, created>>
    /\ UNCHANGED <<mounted, ticks, uiContainers, containersData, fetches>>
    /\ UNCHANGED beVars

\* The POST or the run succeeded: the form is reset, the dialog closes and
\* fetchContainers is called and awaited; the finally of the launch runs
\* when that fetch returns.
LaunchSucceeded ==
    /\ launchPc = "post" /\ launchResult.outcome = "ok"
    /\ form' = InitialForm
    /\ validationErrors' = NoErrors
    /\ showLaunchDialog' = FALSE
    /\ StartFetch("launch")
    /\ launchPc' = "idle"
    /\ UNCHANGED <<variant, filterCriteria, runtime, calls, edits, locals, request, launchResult,
                   launches>>
    /\ UNCHANGED <<mounted, ticks, uiContainers, containersData>>
    /\ UNCHANGED <<beVars, createVars>>

\* A variant of AfterLaunchFailed that resets the form and closes the
\* dialog as a launch that succeeded does.
ResetAfterLaunchFailed(f, open) == [form |-> InitialForm, open |-> FALSE]

\* The form and the dialog after the catch of handleLaunchContainer, which
\* touches neither.
AfterLaunchFailed(f, open) == [form |-> f, open |-> open]

\* The POST or the run failed: the catch sets error, finally clears
\* loading.
LaunchFailed ==
    /\ launchPc = "post" /\ launchResult.outcome = "error"
    /\ error' = Some(launchResult.error)
    /\ loading' = FALSE
    /\ launchPc' = "idle"
    /\ form' = AfterLaunchFailed(form, showLaunchDialog).form
    /\ showLaunchDialog' = AfterLaunchFailed(form, showLaunchDialog).open
    /\ UNCHANGED <<variant, filterCriteria, runtime, calls, edits, locals, validationErrors, request,
                   launchResult, launches>>
    /\ UNCHANGED <<mounted, ticks, uiContainers, containersData, fetches>>
    /\ UNCHANGED <<beVars, createVars>>

\* -------------------------------------- backend actions: POST /containers

\* The POST is with the handler, which has not called ContainerCreate yet.
Posted ==
    /\ variant = "service"
    /\ launchPc = "post" /\ launchResult.outcome = "none" /\ created = None

\* ctx.Bind or client.NewClientWithOpts fails: the handler returns the
\* error.
CreateContainerClientErr ==
    /\ Posted
    /\ \E e \in ClientErrors : launchResult' = Failed(e)
    /\ UNCHANGED <<variant, filterCriteria, runtime, calls, form, showLaunchDialog, edits, locals, validationErrors, launchPc,
                   request, launches>>
    /\ UNCHANGED <<beVars, createVars, uiVars>>

\* ContainerCreate fails: the handler returns the error.
ContainerCreateErr ==
    /\ Posted
    /\ \E e \in CreateErrors :
         /\ launchResult' = Failed(e)
         /\ launchCalls' = Append(launchCalls,
                [op |-> "create", args |-> CreateArgs(request[1].sent), id |-> <<>>,
                 err |-> e])
    /\ UNCHANGED <<variant, filterCriteria, runtime, calls, created, form, showLaunchDialog, edits, locals, validationErrors,
                   launchPc, request, launches>>
    /\ UNCHANGED <<beVars, uiVars>>

\* ContainerCreate succeeds: the runtime holds one more container.
ContainerCreateOk ==
    /\ Posted
    /\ Creatable(runtime, CreateArgs(request[1].sent))
    /\ \E imageLabels \in ImageLabelSets :
         runtime' = RuntimeCreate(runtime, NewId(Len(runtime)),
                                  CreateArgs(request[1].sent), imageLabels)
    /\ created' = Some([ID |-> NewId(Len(runtime))])
    /\ launchCalls' = Append(launchCalls,
           [op |-> "create", args |-> CreateArgs(request[1].sent),
            id |-> NewId(Len(runtime)), err |-> ""])
    /\ UNCHANGED <<variant, filterCriteria, calls>>
    /\ UNCHANGED <<beVars, uiVars, launchVars>>

\* ContainerStart fails: the handler returns the error.
ContainerStartErr ==
    /\ variant = "service" /\ created # None
    /\ \E e \in StartErrors :
         /\ launchResult' = Failed(e)
         /\ launchCalls' = Append(launchCalls,
                [op |-> "start", args |-> <<>>, id |-> StartTarget(created[1]),
                 err |-> e])
    /\ runtime' = AfterStartFailed(runtime, created[1].ID)
    /\ created' = None
    /\ UNCHANGED <<variant, filterCriteria, calls, form, showLaunchDialog, edits, locals, validationErrors, launchPc, request,
                   launches>>
    /\ UNCHANGED <<beVars, uiVars>>

\* ContainerStart succeeds: the handler answers at once with
\* {"message": "Container created"}.
ContainerStartOk ==
    /\ variant = "service" /\ created # None
    /\ runtime' = RuntimeStart(runtime, StartTarget(created[1]))
    /\ launchCalls' = Append(launchCalls,
           [op |-> "start", args |-> <<>>, id |-> StartTarget(created[1]),
            err |-> ""])
    /\ launchResult' = [outcome |-> "ok", body |-> None, error |-> ""]
    /\ created' = None
    /\ UNCHANGED <<variant, filterCriteria, calls, form, showLaunchDialog, edits, locals, validationErrors, launchPc, request,
                   launches>>
    /\ UNCHANGED <<beVars, uiVars>>

\* ----------------------------------------- UI "cli": `docker run`

\* The run is awaited.
Running ==
    /\ variant = "cli"
    /\ launchPc = "post" /\ launchResult.outcome = "none"

\* `docker run` fails before the runtime holds a new container.
DockerRunErr ==
    /\ Running
    /\ \E e \in StartErrors :
         /\ launchResult' = Failed(e)
         /\ launchCalls' = Append(launchCalls,
                [op |-> "run", args |-> request[1].sent, id |-> <<>>, err |-> e])
    /\ UNCHANGED <<variant, filterCriteria, runtime, calls, created, form, showLaunchDialog, edits, locals, validationErrors,
                   launchPc, request, launches>>
    /\ UNCHANGED <<beVars, uiVars>>

\* `docker run -d` succeeds: the container is created and started.
DockerRunOk ==
    /\ Running
    /\ Creatable(runtime, RunCreateArgs(request[1].sent))
    /\ \E imageLabels \in ImageLabelSets :
         runtime' = RuntimeStart(
                        RuntimeCreate(runtime, NewId(Len(runtime)),
                                      RunCreateArgs(request[1].sent), imageLabels),
                        NewId(Len(runtime)))
    /\ launchCalls' = Append(launchCalls,
           [op |-> "run", args |-> request[1].sent, id |-> NewId(Len(runtime)),
            err |-> ""])
    /\ launchResult' = [outcome |-> "ok", body |-> None, error |-> ""]
    /\ UNCHANGED <<variant, filterCriteria, calls, created, form, showLaunchDialog, edits, locals, validationErrors, launchPc,
                   request, launches>>
    /\ UNCHANGED <<beVars, uiVars>>

\* --------------------------------------------------------- specification

\* The steps of one listing, from the call of fetchContainers to its return.
NextList ==
    \/ ListContainersClientErr
    \/ ListContainersListErr
    \/ ListContainersListOk
    \/ InspectErr
    \/ InspectPanic
    \/ InspectOk
    \/ Respond
    \/ \E k \in FetchIndex : FetchApply(k)
    \/ \E k \in FetchIndex : FetchListErr(k)
    \/ \E k \in FetchIndex : FetchListOk(k)
    \/ \E k \in FetchIndex, j \in RowIndex :
         GenerateOk(k, j)
    \/ \E k \in FetchIndex, j \in RowIndex :
         GenerateInspectErr(k, j)
    \/ \E k \in FetchIndex : FetchDone(k)

\* The listing on mount alone.
NextRow == Mount \/ NextList

\* The listing on mount and the filter of its rows.
NextFilter == Mount \/ NextList \/ ChangeFilterCriteria

\* The launch: the click, the handler of the POST or the run, and the
\* continuation.
NextLaunchOnly ==
    \/ HandleLaunchClick
    \/ HandleLaunchInvalid
    \/ HandleLaunchContainer
    \/ LaunchSucceeded
    \/ LaunchFailed
    \/ CreateContainerClientErr
    \/ ContainerCreateErr
    \/ ContainerCreateOk
    \/ ContainerStartErr
    \/ ContainerStartOk
    \/ DockerRunErr
    \/ DockerRunOk

\* The dialog is typed into and cancelled.
NextDialog ==
    \/ HandleCancelLaunch
    \/ ChangeForm

\* Mount, one listing at a time, the dialog and the launch.
NextLaunch == Mount \/ NextList \/ NextLaunchOnly \/ NextDialog

Next == Mount \/ TimerTick \/ NextList \/ NextLaunchOnly

\* The listing on mount of a runtime with several containers.
Spec == Init /\ [][NextRow]_vars

\* The whole extension: the listings of the timer overlap with each other
\* and with a launch.
SpecUI == InitUI /\ [][Next]_vars

\* The listing started on one container of any shape.
SpecRow == InitRow /\ [][NextRow]_vars

\* The launch started on any form.
SpecLaunch == InitLaunch /\ [][NextLaunch]_vars

\* The listing of several containers with the filter field typed into.
SpecFilter == Init /\ [][NextFilter]_vars

\* ------------------------------------------------------------ properties

\* The rows a successful GET /containers returned; row i is derived from
\* containers[i].
ReturnedRows == IF result.outcome = "ok" THEN result.body[1] ELSE <<>>

\* The UI "cli" has just finished a fetch: uiContainers holds its processed
\* rows (row k derived from containersData[k]) and calls holds its calls.
JustFetched ==
    /\ variant = "cli"
    /\ calls # <<>> /\ calls[1].err = ""
    /\ \A k \in 1..Len(uiContainers) : ~uiContainers[k].isLoadingConnectionString

\* Whether the `docker inspect` of container id failed in the current fetch.
InspectFailed(id) ==
    \E n \in 1..Len(calls) :
        calls[n].op = "inspect" /\ calls[n].id = id /\ calls[n].err # ""

\* The two formats of the connection string (spec section 6.3).
AuthString(user, pass, hostPort, db) ==
    <<"mongodb://">> \o user \o <<":">> \o pass \o <<"@localhost:">> \o hostPort
    \o <<"/">> \o db \o <<"?directConnection=true&authSource=admin">>
PlainString(hostPort, db) ==
    <<"mongodb://localhost:">> \o hostPort \o <<"/">> \o db
    \o <<"?directConnection=true">>

HasEntry(env, prefix) == \E n \in 1..Len(env) : HasPrefix(env[n], prefix)

\* The host bindings of 27017/tcp of an inspected container.
MongoBindings(c) == MapIndex(c.NetworkPorts, MongoPortKey)

\* C1 as stated: a returned row has a connection string iff SOME binding
\* of 27017/tcp has a host port other than 0.
C1_AnyBinding ==
    \A i \in 1..Len(ReturnedRows) :
        (ReturnedRows[i].ConnectionString # <<>>)
        <=> (\E k \in 1..Len(MongoBindings(containers[i])) :
                MongoBindings(containers[i])[k].HostPort # <<"0">>)

\* C1 amended: a returned row has a connection string iff 27017/tcp has a
\* binding and the FIRST one has a host port other than "0".
C1_FirstBinding ==
    \A i \in 1..Len(ReturnedRows) :
        (ReturnedRows[i].ConnectionString # <<>>)
        <=> /\ Len(MongoBindings(containers[i])) > 0
            /\ MongoBindings(containers[i])[1].HostPort # <<"0">>

\* A returned row without connection string although the second binding
\* of 27017/tcp has a host port.
C1_Witness ==
    \E i \in 1..Len(ReturnedRows) :
        /\ Len(MongoBindings(containers[i])) = 2
        /\ MongoBindings(containers[i])[1].HostPort = <<"0">>
        /\ MongoBindings(containers[i])[2].HostPort = <<"2", "7", "0", "1", "7">>
        /\ ReturnedRows[i].ConnectionString = <<>>

\* C2: with a bound host port the string is the authenticated format iff
\* the scanned username and password are both non-empty and the plain
\* format otherwise, in the backend and (when `docker inspect` worked) in
\* the UI; an env with only one of the two credentials gives a string
\* that starts with mongodb://localhost: (no credentials).
C2_Composition ==
    /\ \A i \in 1..Len(ReturnedRows) :
         LET c == containers[i]
             scan == EnvScan(c.Env)
             hp == port(c.NetworkPorts)
         IN  hp # <<"0">> =>
             /\ ReturnedRows[i].ConnectionString =
                  IF scan.username # <<>> /\ scan.password # <<>>
                  THEN AuthString(scan.username, scan.password, hp, scan.dbName)
                  ELSE PlainString(hp, scan.dbName)
             /\ (HasEntry(c.Env, USERNAME_PREFIX) # HasEntry(c.Env, PASSWORD_PREFIX))
                  => Head(ReturnedRows[i].ConnectionString) = "mongodb://localhost:"
    /\ JustFetched =>
         \A k \in 1..Len(uiContainers) :
           LET c == containersData[k]
               scan == UiEnvScan(c.Env)
               pp == NumberToString(c.Ports[1].PublicPort)
           IN  (uiContainers[k].connectionString # None /\ ~InspectFailed(c.ID)) =>
               /\ uiContainers[k].connectionString =
                    Some(IF scan.username # <<>> /\ scan.password # <<>>
                         THEN AuthString(scan.username, scan.password, pp, scan.database)
                         ELSE PlainString(pp, scan.database))
               /\ (HasEntry(c.Env, USERNAME_PREFIX) # HasEntry(c.Env, PASSWORD_PREFIX))
                    => Head(uiContainers[k].connectionString[1]) = "mongodb://localhost:"

\* A returned row with credentials in its connection string.
C2_Witness ==
    \E i \in 1..Len(ReturnedRows) :
        /\ HasEntry(containers[i].Env, USERNAME_PREFIX)
        /\ HasEntry(containers[i].Env, PASSWORD_PREFIX)
        /\ ReturnedRows[i].ConnectionString # <<>>
        /\ Head(ReturnedRows[i].ConnectionString) = "mongodb://"

\* C3: a container without bindings of 27017/tcp, or whose (first) host
\* port is 0, gets a row without connection string, in the backend and in
\* the UI, and the listing does not fail for it (the backend returns the
\* rows, the UI asks the runtime nothing about that container).
C3_NoPortNoString ==
    /\ \A i \in 1..Len(ReturnedRows) :
         (\/ Len(MongoBindings(containers[i])) = 0
          \/ MongoBindings(containers[i])[1].HostPort = <<"0">>)
         => ReturnedRows[i].ConnectionString = <<>>
    /\ JustFetched =>
         \A k \in 1..Len(uiContainers) :
              (\/ Len(containersData[k].Ports) = 0
               \/ containersData[k].Ports[1].PublicPort = 0)
              => /\ uiContainers[k].connectionString = None
                 /\ \A n \in 1..Len(calls) : calls[n].id # containersData[k].ID

\* A returned row of a container whose host port is 0.
C3_Witness ==
    \E i \in 1..Len(ReturnedRows) :
        /\ Len(MongoBindings(containers[i])) > 0
        /\ MongoBindings(containers[i])[1].HostPort = <<"0">>
        /\ ReturnedRows[i].ConnectionString = <<>>

\* The database segment of a connection string: what stands between the
\* '/' after the host port and the query.
DatabaseSegment(cs) ==
    LET host == CHOOSE n \in 1..Len(cs) :
                    cs[n] \in {"@localhost:", "mongodb://localhost:"}
        slash == CHOOSE n \in (host + 1)..Len(cs) :
                    cs[n] = "/" /\ \A j \in (host + 1)..(n - 1) : cs[j] # "/"
    IN  SubSeq(cs, slash + 1, Len(cs) - 1)

\* The values of the entries of env that start with prefix.
EntryValues(env, prefix) ==
    { TrimPrefix(env[n], prefix) : n \in { m \in 1..Len(env) : HasPrefix(env[m], prefix) } }

\* C4 as stated, for both revisions: the database segment is "test"
\* without a MONGODB_INITDB_DATABASE= entry and the value of such an entry
\* with one.
C4_DatabaseSegment ==
    /\ \A i \in 1..Len(ReturnedRows) :
         ReturnedRows[i].ConnectionString # <<>> =>
           IF HasEntry(containers[i].Env, DATABASE_PREFIX)
           THEN DatabaseSegment(ReturnedRows[i].ConnectionString)
                  \in EntryValues(containers[i].Env, DATABASE_PREFIX)
           ELSE DatabaseSegment(ReturnedRows[i].ConnectionString) = <<"test">>
    /\ JustFetched =>
         \A k \in 1..Len(uiContainers) :
           (uiContainers[k].connectionString # None
              /\ ~InspectFailed(containersData[k].ID)) =>
             IF HasEntry(containersData[k].Env, DATABASE_PREFIX)
             THEN DatabaseSegment(uiContainers[k].connectionString[1])
                    \in EntryValues(containersData[k].Env, DATABASE_PREFIX)
             ELSE DatabaseSegment(uiContainers[k].connectionString[1]) = <<"test">>

\* The value of the last entry of env that starts with prefix, or default.
LastValue(env, prefix, default) ==
    IF HasEntry(env, prefix)
    THEN TrimPrefix(env[CHOOSE n \in 1..Len(env) :
                          /\ HasPrefix(env[n], prefix)
                          /\ \A m \in (n + 1)..Len(env) : ~HasPrefix(env[m], prefix)],
                    prefix)
    ELSE default

IsRecognized(e) ==
    \/ HasPrefix(e, USERNAME_PREFIX)
    \/ HasPrefix(e, PASSWORD_PREFIX)
    \/ HasPrefix(e, DATABASE_PREFIX)

\* The connection string for host port hp when every key has the value of
\* its last occurrence in env.
LastWinsString(env, hp) ==
    LET u == LastValue(env, USERNAME_PREFIX, <<>>)
        p == LastValue(env, PASSWORD_PREFIX, <<>>)
        d == LastValue(env, DATABASE_PREFIX, <<"test">>)
    IN  IF u # <<>> /\ p # <<>> THEN AuthString(u, p, hp, d) ELSE PlainString(hp, d)

\* C5: the backend's row is built from the LAST occurrence of each of the
\* three keys, and the entries that match no prefix change nothing (the row
\* is the one of env without them).
C5_LastOccurrenceWins ==
    \A i \in 1..Len(ReturnedRows) :
        LET env == containers[i].Env
            hp == MongoBindings(containers[i])[1].HostPort
        IN  ReturnedRows[i].ConnectionString # <<>> =>
            /\ ReturnedRows[i].ConnectionString = LastWinsString(env, hp)
            /\ ReturnedRows[i].ConnectionString
                 = LastWinsString(SelectSeq(env, IsRecognized), hp)

\* A returned row for an env with two different passwords around a
\* username: the string carries the second password.
C5_Witness ==
    \E i \in 1..Len(ReturnedRows) :
        /\ containers[i].Env = << PASSWORD_PREFIX \o <<"b">>,
                                  USERNAME_PREFIX \o <<"a">>,
                                  PASSWORD_PREFIX \o <<"b", "=", "c">> >>
        /\ ReturnedRows[i].ConnectionString
             = AuthString(<<"a">>, <<"b", "=", "c">>,
                          <<"2", "7", "0", "1", "7">>, <<"test">>)

FirstNonEmpty(names) ==
    names[CHOOSE n \in 1..Len(names) :
            names[n] # <<>> /\ \A m \in 1..(n - 1) : names[m] = <<>>]

\* C7 as stated: the backend derives the name from the first NON-EMPTY
\* entry of Names.
C7_FirstNonEmptyName ==
    \A i \in 1..Len(ReturnedRows) :
        LET names == containers[i].Names IN
        (\E n \in 1..Len(names) : names[n] # <<>>) =>
            ReturnedRows[i].Name = TrimPrefix(FirstNonEmpty(names), <<"/">>)

\* C7 amended: the backend derives the name from the FIRST entry of Names
\* when that entry is non-empty, and from the id when the first entry is
\* empty or there is none, whatever the later entries are.
C7_FirstEntryOnly ==
    \A i \in 1..Len(ReturnedRows) :
        LET c == containers[i] IN
        IF Len(c.Names) > 0 /\ c.Names[1] # <<>>
        THEN ReturnedRows[i].Name = TrimPrefix(c.Names[1], <<"/">>)
        ELSE ReturnedRows[i].Name = SubSeq(c.ID, 1, IdPrefixLen)

\* A returned row named after the id although the second name is "/m".
C7_Witness ==
    \E i \in 1..Len(ReturnedRows) :
        /\ containers[i].Names = << <<>>, <<"/", "m">> >>
        /\ ReturnedRows[i].Name = SubSeq(containers[i].ID, 1, IdPrefixLen)

\* C8: a successful listing returns one row per container of the list call,
\* row i carrying the id of container i (nothing dropped, duplicated or
\* reordered).
C8_RowPerContainerInOrder ==
    result.outcome = "ok" =>
        /\ containers = ContainerList(listedFrom)
        /\ Len(ReturnedRows) = Len(containers)
        /\ \A i \in 1..Len(containers) : ReturnedRows[i].Id = containers[i].ID
        /\ \A i, j \in 1..Len(ReturnedRows) :
             i # j => ReturnedRows[i].Id # ReturnedRows[j].Id

\* Two rows returned from a runtime of three containers, one unlabelled.
C8_Witness ==
    /\ Len(ReturnedRows) = 2
    /\ Len(runtime) = 3
    /\ ReturnedRows[1].Id # ReturnedRows[2].Id

\* C9: in the backend a failed runtime call (list, or the inspect of any one
\* container) is the last call of the request, the request ends with that
\* call's error, and a request that ends with an error returns no rows.
C9_FailureNoRows ==
    variant = "service" =>
        /\ \A n \in 1..Len(calls) :
             calls[n].err # "" =>
                 /\ n = Len(calls)
                 /\ pc = "done"
                 /\ result.outcome = "error"
                 /\ result.error = calls[n].err
                 /\ result.body = None
        /\ result.outcome = "error" => result.body = None

\* The inspect of the second container failed after a row was computed for
\* the first, and no row was returned.
C9_Witness ==
    /\ variant = "service"
    /\ Len(calls) = 3
    /\ calls[3].op = "inspect" /\ calls[3].err # ""
    /\ Len(response) = 1
    /\ result.outcome = "error" /\ result.body = None

\* C10 as stated: the derivation of a row never raises, whatever the id,
\* names, env and ports of the container.
C10_NeverRaises == result.outcome # "panic"

\* ---- C11

\* C11: listing is idempotent.  When a request is answered with the
\* runtime's containers the same as they were at the ContainerList call of
\* the request answered before it, it is answered with the same rows: a
\* listing keeps nothing from one call to the next.
C11_ListingIdempotent ==
    [][ ( /\ pc = "loop" /\ pc' = "done" /\ result'.outcome = "ok"
          /\ listings # <<>> /\ listings[1].from = runtime )
            => result'.body[1] = listings[1].rows
      ]_vars

\* A second request is about to be answered over the runtime of the first
\* one, with its row.
C11_Witness ==
    /\ pc = "loop" /\ idx > Len(containers)
    /\ listings # <<>> /\ listings[1].from = runtime
    /\ listings[1].rows # <<>>
    /\ response = listings[1].rows

\* ---- C12

\* A text that is empty or made of blanks.
Blank(s) == \A k \in DOMAIN s : s[k] = " "

\* A text without the blanks at its ends.
Unblanked(s) ==
    IF Blank(s) THEN <<>>
    ELSE LET marks == { k \in DOMAIN s : s[k] # " " }
             first == CHOOSE k \in marks : \A j \in marks : k <= j
             last  == CHOOSE k \in marks : \A j \in marks : j <= k
         IN  SubSeq(s, first, last)

IsDecimal(t) == t # <<>> /\ \A k \in DOMAIN t : t[k] \in Range(Digits)

\* The integer a text denotes: decimal digits, with or without a minus
\* sign; None for every other text.
IntegerOf(t) ==
    IF IsDecimal(t) THEN Some(DigitsToNumber(t, 10))
    ELSE IF t # <<>> /\ Head(t) = "-" /\ IsDecimal(Tail(t))
    THEN Some(0 - DigitsToNumber(Tail(t), 10))
    ELSE None

\* The text denotes an integer from 1 to 65535.
DenotesPort(t) ==
    IntegerOf(t) # None /\ IntegerOf(t)[1] >= MinPort /\ IntegerOf(t)[1] <= MaxPort

\* The keys the three rules ask for.
RuleKeys(f) ==
    { k \in { "username" } : f.authChoice = "auth" /\ Blank(f.username) }
    \cup { k \in { "password" } : f.authChoice = "auth" /\ Blank(f.password) }
    \cup { k \in { "port" } :
             ~Blank(f.customPort) /\ ~DenotesPort(Unblanked(f.customPort)) }

\* The port text is blank or denotes an integer.
IntegerOrBlankPort(f) ==
    Blank(f.customPort) \/ IntegerOf(Unblanked(f.customPort)) # None

\* C12: the validation of the launch form yields exactly the keys of the
\* rules that fail, all of them at once: username and password when
\* authChoice is "auth" and the field is blank, port when the port text is
\* non-blank and no integer from 1 to 65535 (stated here of the port texts
\* that are blank or denote an integer); and a form is launched only when
\* no rule fails.
C12_ErrorKeys ==
    /\ locals # None =>
         LET options == locals[1].options
             errors == locals[1].errors
         IN  /\ DOMAIN errors \subseteq { "username", "password", "port" }
             /\ IntegerOrBlankPort(options) => DOMAIN errors = RuleKeys(options)
             /\ ( /\ options.authChoice = "auth" /\ options.username = <<>>
                  /\ options.password = <<"x">> /\ options.customPort = <<>> )
                    => DOMAIN errors = { "username" }
             /\ ( /\ options.authChoice = "skip"
                  /\ options.customPort = <<"7", "0", "0", "0", "0">> )
                    => DOMAIN errors = { "port" }
             /\ ( /\ options.authChoice = "skip"
                  /\ options.customPort = <<"2", "7", "0", "1", "7">> )
                    => errors = NoErrors
    /\ (request # None /\ IntegerOrBlankPort(request[1].options))
           => RuleKeys(request[1].options) = {}

\* The three rules failed at once on the form that was clicked.
C12_Witness ==
    /\ variant = "service" /\ locals # None
    /\ locals[1].options.authChoice = "auth"
    /\ Blank(locals[1].options.username) /\ Blank(locals[1].options.password)
    /\ locals[1].options.customPort = <<"7", "0", "0", "0", "0">>
    /\ DOMAIN locals[1].errors = { "username", "password", "port" }
    /\ validationErrors = locals[1].errors

\* ---- C13

\* C13 (as stated): a non-blank port text is accepted exactly when it
\* denotes an integer from 1 to 65535; a text that does not denote an
\* integer (digits followed by other characters, a decimal) is rejected.
C13_PortTextIsInteger ==
    /\ (locals # None /\ ~Blank(locals[1].options.customPort))
           => (("port" \in DOMAIN locals[1].errors)
                  <=> ~DenotesPort(Unblanked(locals[1].options.customPort)))
    /\ (request # None /\ ~Blank(request[1].options.customPort))
           => DenotesPort(Unblanked(request[1].options.customPort))

\* ---- C14

\* The ContainerCreate calls of the launch followed.
CreateCalls ==
    IF variant = "service"
    THEN { k \in DOMAIN launchCalls : launchCalls[k].op = "create" }
    ELSE {}

\* C14: the environment of the created container holds
\* MONGODB_INITDB_ROOT_USERNAME=<username> exactly when the username
\* supplied to the handler is not empty, MONGODB_INITDB_ROOT_PASSWORD=<password>
\* exactly when the password is, in this order and with nothing else; the
\* UI supplies the fields trimmed, so a field left blank sets no variable.
C14_EnvOnlyCredentials ==
    \A k \in CreateCalls :
        LET env == launchCalls[k].args.Env
            body == request[1].sent
            options == request[1].options
        IN  /\ env = (IF body.username # <<>>
                      THEN << USERNAME_PREFIX \o body.username >> ELSE <<>>)
                     \o (IF body.password # <<>>
                         THEN << PASSWORD_PREFIX \o body.password >> ELSE <<>>)
            /\ Blank(options.username) => ~HasEntry(env, USERNAME_PREFIX)
            /\ Blank(options.password) => ~HasEntry(env, PASSWORD_PREFIX)
            /\ \A j \in DOMAIN env :
                 \/ env[j] = USERNAME_PREFIX \o Unblanked(options.username)
                 \/ env[j] = PASSWORD_PREFIX \o Unblanked(options.password)

\* A container was created from a form whose username and password fields
\* hold a blank each: its environment is empty.
C14_Witness ==
    \E k \in CreateCalls :
        /\ request[1].options.username = <<" ">>
        /\ request[1].options.password = <<" ">>
        /\ launchCalls[k].args.Env = <<>>

\* ---- C15

\* The environment a launch call asks for: of ContainerCreate, or the -e
\* arguments of `docker run`.
LaunchEnv(call) ==
    IF call.op = "create" THEN call.args.Env
    ELSE IF call.op = "run" THEN ArgsAfter(call.args, <<"-e">>)
    ELSE <<>>

\* C15 (as stated): a launch with Skip Authentication passes no
\* credentials to the container, whatever text is left in the username
\* and password fields.
C15_SkipPassesNoCredentials ==
    (request # None /\ request[1].options.authChoice = "skip")
        => \A k \in DOMAIN launchCalls : LaunchEnv(launchCalls[k]) = <<>>

\* ---- C16

\* C16: the create call binds container port 27017/tcp, and no other, to
\* exactly one host binding: the supplied port when one is supplied, "0"
\* (the runtime picks a free port) otherwise.
C16_OneBinding ==
    \A k \in CreateCalls :
        LET bindings == launchCalls[k].args.PortBindings
            customPort == request[1].options.customPort
        IN  /\ DOMAIN bindings = { MongoPortKey }
            /\ Len(bindings[MongoPortKey]) = 1
            /\ bindings[MongoPortKey][1].HostPort =
                   IF Blank(customPort) THEN <<"0">> ELSE Unblanked(customPort)

\* A container was created from a form without a port: host port "0".
C16_Witness ==
    \E k \in CreateCalls :
        /\ Blank(request[1].options.customPort)
        /\ launchCalls[k].err = ""
        /\ launchCalls[k].args.PortBindings[MongoPortKey][1].HostPort = <<"0">>

\* ---- C17

\* The IDs of the containers a launch that succeeded has created.
LaunchedIds ==
    IF launchResult.outcome = "ok"
    THEN { launchCalls[k].id :
             k \in { j \in DOMAIN launchCalls :
                       launchCalls[j].op \in { "create", "run" }
                       /\ launchCalls[j].err = "" } }
    ELSE {}

\* C17 (as stated): the container a launch created carries the label
\* mongodb-atlas-local=container, so that a request listed after the launch
\* answers with a row for it.
C17_LaunchedIsLabelled ==
    \A id \in LaunchedIds :
        /\ \E k \in DOMAIN runtime :
             runtime[k].ID = id /\ HasLabel(runtime[k])
        /\ \A n \in DOMAIN listings :
             (\E k \in DOMAIN listings[n].from : listings[n].from[k].ID = id)
                 => \E j \in DOMAIN listings[n].rows : listings[n].rows[j].Id = id

\* ---- C18

\* The calls of one kind among the calls of the launch.
CallsOf(op) == { k \in DOMAIN launchCalls : launchCalls[k].op = op }

\* C18: a launch calls ContainerCreate once and then ContainerStart once,
\* for the ID the create call returned, and nothing else; the handler
\* answers with success in the step in which the start call returns.
C18_CreateThenStart ==
    variant = "service" =>
        /\ Cardinality(CallsOf("create")) <= 1
        /\ Cardinality(CallsOf("start")) <= 1
        /\ DOMAIN launchCalls = CallsOf("create") \cup CallsOf("start")
        /\ \A k \in CallsOf("start") :
             /\ k = 2
             /\ launchCalls[1].op = "create" /\ launchCalls[1].err = ""
             /\ launchCalls[k].id = launchCalls[1].id
        /\ launchResult.outcome = "ok"
             <=> (Len(launchCalls) = 2 /\ launchCalls[2].err = "")

\* A launch succeeded: one create call, one start call for its container,
\* which the runtime now runs.
C18_Witness ==
    /\ variant = "service" /\ launchResult.outcome = "ok"
    /\ Len(launchCalls) = 2
    /\ launchCalls[2].op = "start" /\ launchCalls[2].id = launchCalls[1].id
    /\ \E k \in DOMAIN runtime :
         runtime[k].ID = launchCalls[2].id /\ IsRunning(runtime[k])

\* ---- C19

\* C19: when the create call fails the handler returns its error and
\* starts nothing; when the start call fails the handler returns its
\* error, calls nothing more (no retry, no removal) and the created
\* container stays in the runtime, not running.
C19_FailureStops ==
    variant = "service" =>
        /\ \A k \in CallsOf("create") :
             launchCalls[k].err # ""
                 => /\ launchCalls = <<launchCalls[k]>>
                    /\ launchResult = Failed(launchCalls[k].err)
        /\ \A k \in CallsOf("start") :
             launchCalls[k].err # ""
                 => /\ Len(launchCalls) = 2
                    /\ launchResult = Failed(launchCalls[k].err)
                    /\ \E j \in DOMAIN runtime :
                         /\ runtime[j].ID = launchCalls[1].id
                         /\ ~IsRunning(runtime[j])

\* The start call failed: the error went back and the container is still
\* there as it was created.
C19_Witness ==
    /\ variant = "service" /\ Len(launchCalls) = 2
    /\ launchCalls[2].op = "start" /\ launchCalls[2].err \in StartErrors
    /\ launchResult.outcome = "error"
    /\ \E j \in DOMAIN runtime :
         runtime[j].ID = launchCalls[1].id /\ runtime[j].State = "created"

\* ---- C20

\* The rows a fetch in flight has to set the containers state to when it
\* completes, None when it has failed or has no answer yet.
RowsOf(f) ==
    IF variant = "service"
    THEN IF f.pc = "got" /\ f.result.outcome = "ok"
         THEN Some(JsonRows(f.result.body[1])) ELSE None
    ELSE IF f.pc = "inspect" /\ f.pending = {}
         THEN Some(processedContainers(f.data, f.settled)) ELSE None

\* C20: the UI neither coalesces nor cancels its listing calls.  A new
\* call leaves the calls in flight as they are, a call leaves the calls in
\* flight only by completing, one at a time, and the rows of each call that
\* completes are set as the containers state, whichever calls were issued
\* before or after it and are still in flight.
C20_AppliedOnCompletion ==
    [][ /\ Len(fetches') > Len(fetches)
            => SubSeq(fetches', 1, Len(fetches)) = fetches
        /\ Len(fetches') < Len(fetches)
            => \E k \in DOMAIN fetches : fetches' = Remove(fetches, k)
        /\ \A k \in DOMAIN fetches :
             (fetches' = Remove(fetches, k) /\ RowsOf(fetches[k]) # None)
                 => uiContainers' = RowsOf(fetches[k])[1]
      ]_vars

\* The call of the timer has completed and its rows are the containers
\* state while the call made on mount, issued before it, is still in
\* flight.
C20_Witness ==
    /\ ticks = 1 /\ launches = 0
    /\ Len(fetches) = 1 /\ fetches[1].by = "mount"
    /\ uiContainers # <<>>

\* ---- C21

\* The position of the `docker inspect` of container id among the calls of
\* the fetch, 0 when there was none.
InspectPosition(id) ==
    IF \E n \in 1..Len(calls) : calls[n].op = "inspect" /\ calls[n].id = id
    THEN CHOOSE n \in 1..Len(calls) : calls[n].op = "inspect" /\ calls[n].id = id
    ELSE 0

\* C21: in the revision that inspects the listed containers concurrently,
\* the rows are in the order of the list call whatever the order in which
\* the inspect calls complete: row k is the row of the k-th listed
\* container, with that container's connection string.
C21_RowsInListOrder ==
    variant = "cli" =>
        /\ Len(uiContainers) = Len(containersData)
        /\ \A k \in 1..Len(uiContainers) :
             /\ uiContainers[k].id = containersData[k].ID
             /\ ~uiContainers[k].isLoadingConnectionString
                    => uiContainers[k].connectionString \in
                         { generateMongoDBConnectionString(containersData[k],
                               ok, containersData[k].Env) : ok \in BOOLEAN }

\* The inspect of the second listed container completed before the
\* inspect of the first, and the rows are there.
C21_Witness ==
    /\ JustFetched
    /\ Len(uiContainers) >= 2
    /\ InspectPosition(containersData[1].ID) > 0
    /\ InspectPosition(containersData[2].ID) > 0
    /\ InspectPosition(containersData[2].ID) < InspectPosition(containersData[1].ID)

\* ---- C22

\* The fetch in flight has failed: the GET was answered with an error or
\* not at all ("service"), or listContainers is about to reject ("cli",
\* where a fetch leaves from "list" only by rejecting).
FetchFailed(f) ==
    IF variant = "service"
    THEN f.pc = "got" /\ f.result.outcome # "ok"
    ELSE f.pc = "list"

\* C22: when a listing call of the UI fails, the error message is set and
\* the containers state stays as it was, with the rows of the fetch that
\* set it last.
C22_FailureKeepsRows ==
    [][ \A k \in DOMAIN fetches :
          (fetches' = Remove(fetches, k) /\ FetchFailed(fetches[k]))
              => /\ error' # None
                 /\ uiContainers' = uiContainers
      ]_vars

\* The request of the timer failed after the request made on mount was
\* answered: the error is shown over the rows of the first answer.
C22_Witness ==
    /\ variant = "service"
    /\ fetches = <<>> /\ ticks = 1 /\ launches = 0
    /\ result.outcome = "error" /\ error = Some(result.error)
    /\ listings # <<>>
    /\ uiContainers # <<>>
    /\ uiContainers = JsonRows(listings[1].rows)

\* ---- C23

\* The continuation of a launch that failed (the catch and the finally of
\* handleLaunchContainer) is the step.
LaunchFailureStep ==
    launchPc = "post" /\ launchResult.outcome = "error" /\ launchPc' = "idle"

\* The continuation of a launch that succeeded is the step.
LaunchSuccessStep ==
    launchPc = "post" /\ launchResult.outcome = "ok" /\ launchPc' = "idle"

\* C23: when a launch fails the UI sets error to the message of the
\* failure and leaves the dialog and the values of the form as they are;
\* the dialog closes, and the form goes back to its initial values, only
\* in the continuation of a launch that succeeded or in a cancel.
C23_FailureKeepsDialog ==
    [][ /\ LaunchFailureStep
            => /\ error' = Some(launchResult.error)
               /\ showLaunchDialog' = showLaunchDialog
               /\ form' = form
        /\ (showLaunchDialog /\ ~showLaunchDialog')
            => (LaunchSuccessStep \/ HandleCancelLaunch)
        /\ (form # InitialForm /\ form' = InitialForm)
            => (LaunchSuccessStep \/ HandleCancelLaunch \/ ChangeForm) ]_vars

\* A launch of a form the user filled in has failed: the banner shows the
\* failure, the dialog is open and the form holds what was launched.
C23_Witness ==
    /\ launchPc = "idle" /\ launches = 1 /\ launchResult.outcome = "error"
    /\ error = Some(launchResult.error)
    /\ showLaunchDialog
    /\ form # InitialForm /\ form = request[1].options

\* ---- C24

\* The name of the row, or its version (in the earlier revision, whose
\* rows hold the image in its place: its image), contains the criteria,
\* whatever the case of the letters; a field the row does not have
\* contains nothing.
NameOrVersionContains(row, criteria) ==
    LET first == IF variant = "cli" THEN row.name
                 ELSE IF row.name = None THEN <<>> ELSE row.name[1]
        second == IF variant = "cli" THEN Characters(row.image)
                  ELSE IF row.version = None THEN <<>>
                  ELSE Characters(row.version[1])
    IN  \/ includes(toLowerCase(first), toLowerCase(criteria))
        \/ includes(toLowerCase(second), toLowerCase(criteria))

\* sub is a subsequence of s: its entries are entries of s in the order of s.
RECURSIVE IsSubsequence(_, _)
IsSubsequence(sub, s) ==
    IF sub = <<>> THEN TRUE
    ELSE IF s = <<>> THEN FALSE
    ELSE IF Head(sub) = Head(s) THEN IsSubsequence(Tail(sub), Tail(s))
    ELSE IsSubsequence(sub, Tail(s))

\* C24 (as stated): the filter returns the rows of the table unchanged
\* when the criteria is empty or blank; otherwise it returns exactly the
\* rows whose name or version contains the criteria, whatever the case, in
\* their order: a subsequence of the rows.
C24_FilterIsSubsequence ==
    /\ filteredContainers.outcome = "return"
    /\ Blank(filterCriteria) => filteredContainers.rows = uiContainers
    /\ ~Blank(filterCriteria) =>
         filteredContainers.rows =
             SelectSeq(uiContainers,
                       LAMBDA row : NameOrVersionContains(row, filterCriteria))
    /\ IsSubsequence(filteredContainers.rows, uiContainers)

\* ---- C25

\* A step of the handler of GET /containers.
ListContainersStep ==
    \/ ListContainersClientErr
    \/ ListContainersListErr
    \/ ListContainersListOk
    \/ InspectErr
    \/ InspectPanic
    \/ InspectOk
    \/ Respond

\* The rows of the labelled running containers of a runtime, each from
\* what the runtime tells of the container.
RowsFrom(rt) ==
    LET listed == SelectSeq(rt, LAMBDA c : HasLabel(c) /\ IsRunning(c))
    IN  [ k \in 1..Len(listed) |->
            Row(listed[k], ContainerInspect(rt, listed[k].ID)) ]

\* C25: a listing leaves the runtime as it is and keeps nothing between
\* calls: it makes one list call, which returns the labelled running
\* containers, then one inspect call per returned container in their
\* order, and never a create or a start call; the rows it answers with are
\* those of the runtime it listed (listedFrom: the runtime at the list
\* call).
C25_ListingReadOnly ==
    [][ ListContainersStep =>
          /\ runtime' = runtime
          /\ created' = created /\ launchCalls' = launchCalls
          /\ \A n \in DOMAIN calls' : calls'[n].op \in { "list", "inspect" }
          /\ calls' # <<>> => calls'[1].op = "list"
          /\ Len(calls') <= 1 + Len(containers')
          /\ \A n \in 2..Len(calls') :
               calls'[n].op = "inspect" /\ calls'[n].id = containers'[n - 1].ID
          /\ (pc # "loop" /\ pc' = "loop") => listedFrom' = runtime
          /\ pc' = "loop" =>
               containers' = SelectSeq(listedFrom',
                                 LAMBDA c : HasLabel(c) /\ IsRunning(c))
          /\ (pc' = "done" /\ result'.outcome = "ok") =>
               /\ Len(calls') = 1 + Len(containers')
               /\ result'.body[1] = RowsFrom(listedFrom') ]_vars

\* A listing has answered with the rows of two containers of a runtime
\* that holds a container without the label as well: one list call and two
\* inspect calls were made.
C25_Witness ==
    /\ variant = "service" /\ pc = "done" /\ result.outcome = "ok"
    /\ Len(containers) = 2 /\ Len(runtime) = 3
    /\ Len(calls) = 3
    /\ calls[2].op = "inspect" /\ calls[3].op = "inspect"
    /\ calls[2].id # calls[3].id
    /\ result.body[1] = RowsFrom(runtime)

\* ---- C26

\* handleLaunchContainer has found errors in the form: the step that
\* records the errors of a validation that failed.
InvalidClickStep ==
    locals' # locals /\ locals'[1].errors # NoErrors

\* C26: when handleLaunchContainer finds a validation error, it sets
\* validationErrors to the errors found and nothing else changes: no
\* request is sent and nothing is asked of the runtime, and loading,
\* error, the form, the dialog and the rows are as they were.
C26_InvalidChangesOnlyErrors ==
    [][ InvalidClickStep =>
          /\ validationErrors' = locals'[1].errors
          /\ locals'[1].options = form
          /\ UNCHANGED <<loading, error, form, showLaunchDialog, uiContainers>>
          /\ UNCHANGED <<launchPc, request, launchResult, launches, fetches>>
          /\ UNCHANGED <<runtime, calls, created, launchCalls>> ]_vars

\* A form with errors was clicked while rows were in the table: the
\* errors of the form are shown, nothing was requested.
C26_Witness ==
    /\ locals # None /\ locals[1].errors # NoErrors
    /\ validationErrors = locals[1].errors
    /\ form = locals[1].options /\ showLaunchDialog
    /\ ~loading
    /\ request = None /\ launchCalls = <<>> /\ launchPc = "idle"
    /\ uiContainers # <<>>

\* ---- C27

\* A launch is outstanding: handleLaunchContainer awaits the POST or the
\* run, or the fetchContainers it calls after them.
LaunchOutstanding ==
    \/ launchPc = "post"
    \/ \E k \in DOMAIN fetches : fetches[k].by = "launch"

\* C27 (as stated): while a launch is outstanding loading is true, so
\* that the "Launch Container" button is disabled and no second launch
\* can begin, whatever the timer's fetchContainers calls do meanwhile.
C27_LaunchKeepsLoading == LaunchOutstanding => loading

\* ---- C28

\* A listing or a launch is in flight: a fetchContainers call has not
\* returned, or the POST or the run of a launch is awaited.
InFlight == fetches # <<>> \/ launchPc = "post"

\* C28 (as stated): loading is true in every state in which a listing or
\* a launch is in flight, and false in every state in which none is.
C28_LoadingIffInFlight == loading <=> InFlight

\* ---- C29

\* C29 (as stated): validationErrors reflects the last validation: once
\* handleLaunchContainer has validated a form without errors,
\* validationErrors is empty, also while the launch is awaited and after
\* it has failed, until a later validation finds errors; and the errors
\* shown are never those of an earlier validation.
C29_ErrorsOfLastValidation ==
    locals # None =>
        /\ locals[1].errors = NoErrors => validationErrors = NoErrors
        /\ validationErrors \in { NoErrors, locals[1].errors }

\* ---- C30

\* C30 (as stated): every ContainerCreate call that reaches the runtime
\* binds 27017/tcp to host port "0" (the runtime assigns one) or to a text
\* that denotes an integer from 1 to 65535, whatever form passed the
\* validation of the UI and whatever body POST /containers accepted.
C30_HostPortInRange ==
    \A k \in CreateCalls :
        LET hostPort == launchCalls[k].args.PortBindings[MongoPortKey][1].HostPort
        IN  hostPort = <<"0">> \/ DenotesPort(hostPort)

====
